---- MODULE Spec2Model ----
(***************************************************************************)
(* Task queue, task records and the background worker of the image         *)
(* restoration backend (app/services/tasks.py, app/workers/processor.py,   *)
(* app/main.py, app/schemas/tasks.py, app/api/routes/tasks.py).            *)
(*                                                                         *)
(* Redis holds three things: the serialized task records (tasks:data:<id>),*)
(* the creation-time index (tasks:index) and the work queue (tasks:queue). *)
(* Every Redis command (or MULTI/EXEC pipeline) is one atomic step; a      *)
(* request handler and the worker are sequences of such steps and          *)
(* interleave freely.  The relational mirror is not configured by          *)
(* lifespan (db_session_factory is None), so it is absent here.            *)
(***************************************************************************)
EXTENDS Integers, Sequences, FiniteSets, TLC

(* ---------------------------- bounds ---------------------------------- *)
MaxTasks == 2
MaxOps == 2
MaxWorkers == 2
MaxStarts == 2
NumClients == 2

Ids == 1..MaxTasks
Workers == 1..MaxWorkers
Clients == 1..NumClients

(* ---------------------- schemas/tasks.py ------------------------------- *)
None == "None"

TaskStatus == {"pending", "processing", "completed", "failed", "cancelled"}

\* The mutable fields of TaskDetail.  id, filename, size, content_type,
\* created_at and source_url are fixed at creation and are represented by
\* the task id itself; updated_at is a wall-clock stamp no operation reads.
TaskDetailFields == {"status", "message", "metrics", "processed_at", "adjustments"}

TaskUpdateFields == {"status", "metrics", "message", "processed_at", "adjustments"}

\* TaskUpdate(**kwargs): declared fields default to None, a keyword that is
\* not a declared field is ignored (pydantic's default extra = "ignore").
TaskUpdate(kwargs) ==
    [f \in TaskUpdateFields |-> IF f \in DOMAIN kwargs THEN kwargs[f] ELSE None]

\* TaskDetail(**data): keeps exactly the declared fields.
TaskDetail(d) ==
    [f \in TaskDetailFields |-> IF f \in DOMAIN d THEN d[f] ELSE None]

\* The value read for a key that does not exist (get_task raises KeyError).
NoTask == [f \in TaskDetailFields |-> IF f = "status" THEN "absent" ELSE None]

(* ------------------------- message texts ------------------------------ *)
MsgDone == "done"
MsgCancelled == "cancelled by user"
MsgRequeued == "requeued"
MsgAdjusted == "new task after model switch"
KeyErrorText == "'task not found in db'"
StorageErrorText == "redis connection error"
ImageErrors == {"Unable to read image"}
Metrics == {"m1"}
Adjustments == {"adj1"}
Now == "utcnow"

(* -------------------------- queue entries ----------------------------- *)
\* A queue element is a task id; seq is the position of the RPUSH that
\* appended it in the history of all appends and src the handler that
\* pushed it (both used to state ordering and redelivery).
\* The shutdown sentinel "__shutdown__" is the element with id 0.
SHUTDOWN == [id |-> 0, seq |-> 0, src |-> "stop"]
NoJob == [id |-> 0, seq |-> 0, src |-> "none"]

VARIABLES
    data,            \* tasks:data:<id>  (NoTask when the key is absent)
    index,           \* tasks:index, the set of ids in the sorted set
    queue,           \* tasks:queue, head first
    nextId,          \* ids handed out by uuid4 so far, plus one
    nextSeq,         \* appends to the queue so far, plus one
    ops,             \* request handlers started so far
    starts,          \* processes started so far
    lpc,             \* lifespan: "down", "up", "stopping", "stopped"
    cur,             \* the TaskWorker created by the current lifespan (0: none)
    wpc,             \* per worker: position in run / _process_task
    wjob,            \* per worker: the queue element popped
    wsnap,           \* per worker: the record read by update_task
    wres,            \* per worker: metrics returned or text of the exception
    stopEvent,       \* per worker: _stop_event
    cpc,             \* per request thread: position in its handler
    cop,             \* per request thread: the handler running
    cid,             \* per request thread: the task id it works on
    crec,            \* per request thread: the record it is about to save
    cset,            \* per request thread: ids read by clear_all
    lastWrite,       \* history: who saved the record last, and over which status
    cancelledQueued, \* history: ids cancelled while still queued
    stuck,           \* history: elements popped by a process that died mid-task
    caught,          \* history: the worker's last iteration caught an exception
    files,           \* upload_dir: per task id, the content of its source file
    padj,            \* run_pipeline: the adjustments it was called with
    ppipe,           \* run_pipeline: id of the resolved pipeline
    pidx,            \* run_pipeline: stages of the pipeline gone through
    ptrace,          \* run_pipeline: executed_stages
    pimage,          \* run_pipeline: current_image, as the models applied so far
    pout,            \* run_pipeline: "idle", "running", "returned", "raised"
    perr,            \* run_pipeline: text of the exception it propagated
    psummary,        \* run_pipeline: the summary returned
    settings,        \* get_settings(): the configuration of the deployment
    backend,         \* the model backend: when its calls exhaust memory
    engine,          \* Final2xEngine: _current_tile_size, _model, loads so far
    elock,           \* Final2xEngine._lock: the thread holding it
    call,            \* per thread: its call of Final2xEngine.process
    lru,             \* _build_engine's lru_cache: entries, hits, misses
    built,           \* the Final2xEngine objects constructed, per cache key
    gcall,           \* per thread: its call of get_final2x_engine
    sr,              \* one call of Final2xEngine.process: the image sizes
    backends         \* the lru_caches of the other backends, and the last call

storeVars == <<data, index, queue>>
allocVars == <<nextId, nextSeq, ops, starts>>
workerVars == <<wpc, wjob, wsnap, wres, stopEvent>>
clientVars == <<cpc, cop, cid, crec, cset>>
histVars == <<lastWrite, cancelledQueued, stuck, caught>>
pipeVars == <<padj, ppipe, pidx, ptrace, pimage, pout, perr, psummary>>
taskVars == <<data, index, queue, nextId, nextSeq, ops, starts, lpc, cur, wpc, wjob, wsnap, wres,
              stopEvent, cpc, cop, cid, crec, cset, lastWrite, cancelledQueued,
              stuck, caught, files>>
engineVars == <<settings, backend, engine, elock, call>>
cacheVars == <<lru, built, gcall>>
scaleVars == <<sr>>
backendVars == <<backends>>
offTaskVars == <<pipeVars, engineVars, cacheVars, scaleVars, backendVars>>
offPipeVars == <<taskVars, engineVars, cacheVars, scaleVars, backendVars>>
offEngineVars == <<taskVars, pipeVars, cacheVars, scaleVars, backendVars>>
offCacheVars == <<taskVars, pipeVars, engineVars, scaleVars, backendVars>>
offScaleVars == <<taskVars, pipeVars, engineVars, cacheVars, backendVars>>
offBackendVars == <<taskVars, pipeVars, engineVars, cacheVars, scaleVars>>
vars == <<taskVars, pipeVars, engineVars, cacheVars, scaleVars, backendVars>>

NoWrite == [by |-> "none", over |-> None]

\* No source file under that id (Path.exists() is false).
NoFile == 0

\* run_pipeline has not been called.
PipeIdle ==
    /\ padj = <<>>
    /\ ppipe = None
    /\ pidx = 0
    /\ ptrace = <<>>
    /\ pimage = <<>>
    /\ pout = "idle"
    /\ perr = None
    /\ psummary = None

\* Redis and the upload directory empty, no process started.
TaskInit ==
    /\ data = [i \in Ids |-> NoTask]
    /\ index = {}
    /\ queue = <<>>
    /\ nextId = 1
    /\ nextSeq = 1
    /\ ops = 0
    /\ starts = 0
    /\ lpc = "down"
    /\ cur = 0
    /\ wpc = [w \in Workers |-> "none"]
    /\ wjob = [w \in Workers |-> NoJob]
    /\ wsnap = [w \in Workers |-> NoTask]
    /\ wres = [w \in Workers |-> None]
    /\ stopEvent = [w \in Workers |-> FALSE]
    /\ cpc = [c \in Clients |-> "idle"]
    /\ cop = [c \in Clients |-> "none"]
    /\ cid = [c \in Clients |-> 0]
    /\ crec = [c \in Clients |-> NoTask]
    /\ cset = [c \in Clients |-> {}]
    /\ lastWrite = [i \in Ids |-> NoWrite]
    /\ cancelledQueued = {}
    /\ stuck = {}
    /\ caught = [w \in Workers |-> FALSE]
    /\ files = [i \in Ids |-> NoFile]

\* The threads that call the engine: the worker thread (0) and the request
\* threads.
WorkerThread == 0
Callers == {WorkerThread} \cup Clients
NoCaller == -1

\* A model name is a string, kept as the sequence of its pieces: the
\* characters of ".pth" one by one, and any other run of text (without a
\* "." and not starting with p, t or h) as one piece.  No name is the empty
\* sequence: every test the code makes of a name (x or y, if x) treats None
\* and the empty string alike.
Pth == <<".", "p", "t", "h">>
NoName == <<>>
RealESRGAN_x4plus == <<"RealESRGAN_RealESRGAN_x4plus_4x">>

\* Scale factors are kept as whole numbers of twentieths: 2.0 is 40.
ScaleUnit == 20

\* core/config.py: the defaults of Settings; preview_enable_final2x is not
\* a field of Settings.
DefaultSettings ==
    [final2x_enabled |-> TRUE, final2x_model_name |-> RealESRGAN_x4plus,
     final2x_target_scale |-> 2 * ScaleUnit,
     final2x_use_tile |-> FALSE, final2x_tile_size |-> 128,
     final2x_device |-> "auto", preview_enable_final2x |-> "unset"]

\* The rest of the task service's state, which the engine does not touch.
taskRest == <<index, queue, nextId, nextSeq, starts, lpc, cur, wpc, wjob, wsnap, wres,
              stopEvent, cpc, cop, cid, crec, cset, lastWrite, cancelledQueued,
              stuck, caught, files>>

NoExc == [kind |-> "none", tile |-> 0]
IdleCall == [pc |-> "idle", cand |-> <<>>, tried |-> <<>>, orig |-> NoExc, exc |-> NoExc]

\* No thread is in the engine: the engine as constructed under the default
\* settings (tiling disabled), the lock free.
EngineIdle ==
    /\ settings = DefaultSettings
    /\ backend = [mode |-> "any", limit |-> 0]
    /\ engine = [tile |-> 0, model |-> "loaded"]
    /\ elock = NoCaller
    /\ call = [t \in Callers |-> IdleCall]

\* No engine has been asked for: the cache of _build_engine is empty.
IdleGet == [pc |-> "idle", name |-> NoName, key |-> NoName, got |-> 0]
CacheIdle ==
    /\ lru = [cache |-> {}, hits |-> 0, misses |-> 0]
    /\ built = {}
    /\ gcall = [t \in Callers |-> IdleGet]

\* No image is being processed.
IdleScale == [pc |-> "idle"]
ScaleIdle == sr = IdleScale

\* The caches of the backend getters: functools.lru_cache(maxsize=1) on
\* each, nothing cached, no call made.
Getters ==
    {"_get_gfpgan", "_get_promptfix_pipeline", "_get_iopaint_pipeline",
     "_get_gfpgan_restorer", "_get_codeformer"}
NoBackendCall == [kind |-> "none", provider |-> <<>>]
BackendIdle == backends = [cached |-> [g \in Getters |-> {}], last |-> NoBackendCall]

\* One task has been uploaded and its id taken from the queue by the
\* worker thread, which is about to process it; nothing else has happened.
TaskDequeued ==
    /\ data = [i \in Ids |-> IF i = 1 THEN TaskDetail([status |-> "pending"]) ELSE NoTask]
    /\ index = {1}
    /\ queue = <<>>
    /\ nextId = 2
    /\ nextSeq = 2
    /\ ops = 0
    /\ starts = 1
    /\ lpc = "up"
    /\ cur = 1
    /\ wpc = [w \in Workers |-> "none"]
    /\ wjob = [w \in Workers |-> NoJob]
    /\ wsnap = [w \in Workers |-> NoTask]
    /\ wres = [w \in Workers |-> None]
    /\ stopEvent = [w \in Workers |-> FALSE]
    /\ cpc = [c \in Clients |-> "idle"]
    /\ cop = [c \in Clients |-> "none"]
    /\ cid = [c \in Clients |-> 0]
    /\ crec = [c \in Clients |-> NoTask]
    /\ cset = [c \in Clients |-> {}]
    /\ lastWrite = [i \in Ids |-> IF i = 1 THEN [by |-> "upload", over |-> "absent"] ELSE NoWrite]
    /\ cancelledQueued = {}
    /\ stuck = {}
    /\ caught = [w \in Workers |-> FALSE]
    /\ files = [i \in Ids |-> IF i = 1 THEN 1 ELSE NoFile]

OffTaskIdle == PipeIdle /\ EngineIdle /\ CacheIdle /\ ScaleIdle /\ BackendIdle
OffPipeIdle == TaskInit /\ EngineIdle /\ CacheIdle /\ ScaleIdle /\ BackendIdle
OffEngineIdle == TaskDequeued /\ PipeIdle /\ CacheIdle /\ ScaleIdle /\ BackendIdle
OffCacheIdle == TaskInit /\ PipeIdle /\ ScaleIdle /\ BackendIdle

Init == TaskInit /\ OffTaskIdle

(* ------------------------ services/tasks.py --------------------------- *)
QueuedIds == {queue[k].id : k \in 1..Len(queue)}

\* update_task: the stored record with every non-None payload field
\* written over it, rebuilt as a TaskDetail.
update_task(task, payload) ==
    TaskDetail([f \in (DOMAIN task) \cup {g \in DOMAIN payload : payload[g] # None} |->
                   IF f \in DOMAIN payload /\ payload[f] # None
                   THEN payload[f] ELSE task[f]])

\* Variant: the save writes the record's set fields one by one (HSET of
\* the non-None fields) instead of replacing the stored value.
save_task_fieldwise(i, rec, who) ==
    /\ data' = [data EXCEPT ![i] = [f \in TaskDetailFields |->
                                       IF rec[f] # None THEN rec[f] ELSE data[i][f]]]
    /\ index' = index \cup {i}
    /\ lastWrite' = [lastWrite EXCEPT ![i] = [by |-> who, over |-> data[i].status]]

\* _save_task_to_cache: SET of the whole record and ZADD into the index,
\* in one MULTI/EXEC pipeline.
save_task(i, rec, who) ==
    /\ data' = [data EXCEPT ![i] = rec]
    /\ index' = index \cup {i}
    /\ lastWrite' = [lastWrite EXCEPT ![i] = [by |-> who, over |-> data[i].status]]

\* Variant: the id is pushed at the head (LPUSH) instead of the tail.
rpush_at_head(i, op) ==
    /\ queue' = <<[id |-> i, seq |-> nextSeq, src |-> op]>> \o queue
    /\ nextSeq' = nextSeq + 1

\* redis.rpush(TASK_QUEUE_KEY, id)
rpush(i, op) ==
    /\ queue' = Append(queue, [id |-> i, seq |-> nextSeq, src |-> op])
    /\ nextSeq' = nextSeq + 1

\* The members of the sorted set, highest score first.  The score is
\* created_at; ids are numbered in creation order.
RECURSIVE zrevrange_all(_)
zrevrange_all(S) ==
    IF S = {} THEN <<>>
    ELSE LET m == CHOOSE x \in S : \A y \in S : y <= x
         IN <<m>> \o zrevrange_all(S \ {m})

\* redis.zrevrange(TASK_INDEX_KEY, start, stop) for 0 <= start <= stop.
zrevrange(S, start, stop) ==
    LET all == zrevrange_all(S)
        last == IF stop + 1 < Len(all) THEN stop + 1 ELSE Len(all)
    IN SubSeq(all, start + 1, last)

\* list_tasks without a database session: the page offset .. offset+limit-1
\* of the index, then the records read with MGET; a missing record and a
\* record whose status is not status_filter are skipped.
list_tasks(status_filter, offset, limit) ==
    LET task_ids == zrevrange(index, offset, offset + limit - 1)
        kept(i) == /\ data[i].status # "absent"
                   /\ status_filter # None => data[i].status = status_filter
    IN SelectSeq(task_ids, kept)

(* ------------------- request handlers (one step per Redis call) -------- *)
\* A request thread is free to take a request (at most MaxOps are made);
\* the threads are interchangeable, the free one with the lowest number
\* takes it.
Idle(c) ==
    /\ lpc = "up"
    /\ cpc[c] = "idle"
    /\ ops < MaxOps
    /\ \A d \in Clients : d < c => cpc[d] # "idle"

Begin(c, op, i, rec, next) ==
    /\ ops' = ops + 1
    /\ cpc' = [cpc EXCEPT ![c] = next]
    /\ cop' = [cop EXCEPT ![c] = op]
    /\ cid' = [cid EXCEPT ![c] = i]
    /\ crec' = [crec EXCEPT ![c] = rec]
    /\ UNCHANGED cset

Finish(c) ==
    /\ cpc' = [cpc EXCEPT ![c] = "idle"]
    /\ cop' = [cop EXCEPT ![c] = "none"]
    /\ cid' = [cid EXCEPT ![c] = 0]
    /\ crec' = [crec EXCEPT ![c] = NoTask]
    /\ cset' = [cset EXCEPT ![c] = {}]

\* create_from_upload, up to and including _save_task: a fresh uuid4, the
\* uploaded bytes written under it, a pending record, SET + ZADD.
create_from_upload(c) ==
    /\ Idle(c)
    /\ nextId <= MaxTasks
    /\ save_task(nextId, TaskDetail([status |-> "pending"]), "upload")
    /\ nextId' = nextId + 1
    /\ Begin(c, "upload", nextId, NoTask, "push")
    /\ UNCHANGED <<queue, nextSeq, starts, lpc, cur, workerVars, cancelledQueued, stuck, caught>>
    /\ files' = [files EXCEPT ![nextId] = nextId]
    /\ UNCHANGED offTaskVars

\* Variant: the adjustments are written onto the original record, which
\* is put back to pending and queued again.
apply_adjustments_in_place(c, i, adj) ==
    /\ Idle(c)
    /\ data[i] # NoTask
    /\ files[i] # NoFile
    /\ save_task(i,
                 update_task(data[i], TaskUpdate([status |-> "pending", adjustments |-> adj,
                                                  message |-> MsgAdjusted])),
                 "adjust")
    /\ Begin(c, "adjust", i, NoTask, "push")
    /\ UNCHANGED <<queue, nextId, nextSeq, starts, lpc, cur, workerVars, cancelledQueued, stuck,
                   caught, files, offTaskVars>>

\* apply_adjustments, up to and including _save_task: get_task of the
\* original (KeyError when absent, FileNotFoundError when its source file
\* is gone), a fresh uuid4, a copy of the source file under the new id, a
\* pending record with the adjustments, SET + ZADD.  The read and the save are one step: the
\* new record takes only the original's filename and content type, which
\* no operation changes, so nothing another thread does in between alters
\* what is saved.
apply_adjustments(c, i, adj) ==
    /\ Idle(c)
    /\ nextId <= MaxTasks
    /\ data[i] # NoTask
    /\ save_task(nextId,
                 TaskDetail([status |-> "pending", adjustments |-> adj,
                             message |-> MsgAdjusted]),
                 "adjust")
    /\ nextId' = nextId + 1
    /\ Begin(c, "adjust", nextId, NoTask, "push")
    /\ UNCHANGED <<queue, nextSeq, starts, lpc, cur, workerVars, cancelledQueued, stuck,
                   caught>>
    /\ files[i] # NoFile
    /\ files' = [files EXCEPT ![nextId] = files[i]]
    /\ UNCHANGED offTaskVars

\* Variant: cancel_task puts the task back to pending.
CancelPayload_pending == TaskUpdate([status |-> "pending", message |-> MsgCancelled])

\* The payloads the handlers pass to update_task.
CancelPayload == TaskUpdate([status |-> "cancelled", message |-> MsgCancelled])
EnqueuePayload == TaskUpdate([status |-> "pending", message |-> MsgRequeued])
PatchPayloads == {TaskUpdate([status |-> s]) : s \in {"pending", "completed"}}

\* update_task, first half: get_task (KeyError when the key is absent) and
\* the computation of the record to save.
update_read(c, op, i, payload) ==
    /\ Idle(c)
    /\ data[i] # NoTask
    /\ Begin(c, op, i, update_task(data[i], payload), "save")
    /\ stuck' = IF op = "enqueue" THEN {j \in stuck : j.id # i} ELSE stuck
    /\ UNCHANGED <<storeVars, nextId, nextSeq, starts, lpc, cur, workerVars, lastWrite,
                   cancelledQueued, caught>>
    /\ UNCHANGED <<files, offTaskVars>>

\* cancel_task -> update_task(status = cancelled)
cancel_task(c, i) == update_read(c, "cancel", i, CancelPayload)

\* PATCH /tasks/{id} -> update_task with the caller's payload
patch_task(c, i, payload) == update_read(c, "patch", i, payload)

\* enqueue_task -> update_task(status = pending), the push follows
enqueue_task(c, i) ==
    update_read(c, "enqueue", i, EnqueuePayload)

\* _save_task of the record a handler computed.
client_save(c) ==
    /\ lpc = "up"
    /\ cpc[c] = "save"
    /\ save_task(cid[c], crec[c], cop[c])
    /\ cancelledQueued' =
          IF cop[c] = "cancel" /\ cid[c] \in QueuedIds /\ data[cid[c]].status = "pending"
          THEN cancelledQueued \cup {cid[c]}
          ELSE cancelledQueued \ {cid[c]}
    /\ IF cop[c] = "enqueue"
       THEN /\ cpc' = [cpc EXCEPT ![c] = "push"]
            /\ UNCHANGED <<cop, cid, crec, cset>>
       ELSE Finish(c)
    /\ UNCHANGED <<queue, allocVars, lpc, cur, workerVars, stuck, caught>>
    /\ UNCHANGED <<files, offTaskVars>>

\* redis.rpush at the end of create_from_upload, apply_adjustments and
\* enqueue_task.
client_push(c) ==
    /\ lpc = "up"
    /\ cpc[c] = "push"
    /\ rpush(cid[c], cop[c])
    /\ Finish(c)
    /\ UNCHANGED <<data, index, nextId, ops, starts, lpc, cur, workerVars, histVars>>
    /\ UNCHANGED <<files, offTaskVars>>

\* clear_all: ZREVRANGE of the index.
clear_all_ids(c) ==
    /\ Idle(c)
    /\ ops' = ops + 1
    /\ cpc' = [cpc EXCEPT ![c] = "clear_mget"]
    /\ cop' = [cop EXCEPT ![c] = "clear"]
    /\ cset' = [cset EXCEPT ![c] = index]
    /\ UNCHANGED <<cid, crec, storeVars, nextId, nextSeq, starts, lpc, cur, workerVars,
                   histVars>>
    /\ UNCHANGED <<files, offTaskVars>>

\* clear_all: MGET of the listed ids; the ids without a record are dropped
\* and the files of the records read are unlinked.
\* keys_to_delete falls back to the listed ids when no record was read.
clear_all_mget(c) ==
    /\ lpc = "up"
    /\ cpc[c] = "clear_mget"
    /\ LET tasks == {i \in cset[c] : data[i] # NoTask}
       IN cset' = [cset EXCEPT ![c] = IF tasks # {} THEN tasks ELSE cset[c]]
    /\ cpc' = [cpc EXCEPT ![c] = "clear_del"]
    /\ UNCHANGED <<cop, cid, crec, storeVars, allocVars, lpc, cur, workerVars, histVars>>
    /\ files' = [i \in Ids |-> IF i \in cset[c] /\ data[i] # NoTask THEN NoFile ELSE files[i]]
    /\ UNCHANGED offTaskVars

\* clear_all: DEL of the record keys, the index and the queue in one pipeline.
clear_all_delete(c) ==
    /\ lpc = "up"
    /\ cpc[c] = "clear_del"
    /\ data' = [i \in Ids |-> IF i \in cset[c] THEN NoTask ELSE data[i]]
    /\ index' = {}
    /\ queue' = <<>>
    /\ lastWrite' = [i \in Ids |-> IF i \in cset[c] THEN NoWrite ELSE lastWrite[i]]
    /\ cancelledQueued' = cancelledQueued \ cset[c]
    /\ stuck' = {j \in stuck : j.id \notin cset[c]}
    /\ Finish(c)
    /\ UNCHANGED <<allocVars, lpc, cur, workerVars, caught>>
    /\ UNCHANGED <<files, offTaskVars>>

(* ------------------------------ app/main.py --------------------------- *)
\* A worker thread that exists and has not left run.
Running(w) == wpc[w] \notin {"none", "stopped"}

\* Variant: start-up also runs while a process is up, so a second worker
\* thread is started beside the one that is running.
lifespan_start_second ==
    /\ lpc \in {"down", "up"}
    /\ starts < MaxStarts
    /\ starts' = starts + 1
    /\ \E w \in Workers :
          /\ ~Running(w)
          /\ \A v \in Workers : v < w => Running(v)
          /\ cur' = w
          /\ wpc' = [wpc EXCEPT ![w] = "loop"]
          /\ stopEvent' = [stopEvent EXCEPT ![w] = FALSE]
    /\ lpc' = "up"
    /\ UNCHANGED <<storeVars, nextId, nextSeq, ops, wjob, wsnap, wres, clientVars, histVars>>
    /\ UNCHANGED <<files, offTaskVars>>

\* lifespan, start-up in a new process: a TaskService and one TaskWorker
\* (a new thread object, its stop event clear), started.
lifespan_start ==
    /\ lpc = "down"
    /\ starts < MaxStarts
    /\ starts' = starts + 1
    /\ \E w \in Workers :
          /\ ~Running(w)
          /\ \A v \in Workers : v < w => Running(v)
          /\ cur' = w
          /\ wpc' = [wpc EXCEPT ![w] = "loop"]
          /\ stopEvent' = [stopEvent EXCEPT ![w] = FALSE]
    /\ lpc' = "up"
    /\ UNCHANGED <<storeVars, nextId, nextSeq, ops, wjob, wsnap, wres, clientVars, histVars>>
    /\ UNCHANGED <<files, offTaskVars>>

\* lifespan, shut-down -> TaskWorker.stop, first statement: the stop event.
\* The server runs shut-down once the requests under way have returned.
stop_set_event ==
    /\ lpc = "up"
    /\ \A c \in Clients : cpc[c] = "idle"
    /\ stopEvent' = [stopEvent EXCEPT ![cur] = TRUE]
    /\ lpc' = "stopping"
    /\ UNCHANGED <<storeVars, allocVars, cur, wpc, wjob, wsnap, wres, clientVars, histVars>>
    /\ UNCHANGED <<files, offTaskVars>>

\* Variant: stop pushes the sentinel at the tail, behind the queued ids.
stop_rpush ==
    /\ lpc = "stopping"
    /\ queue' = Append(queue, SHUTDOWN)
    /\ lpc' = "stopped"
    /\ UNCHANGED <<data, index, allocVars, cur, workerVars, clientVars, histVars>>
    /\ UNCHANGED <<files, offTaskVars>>

\* TaskWorker.stop, second statement: LPUSH of the sentinel (at the head).
stop_lpush ==
    /\ lpc = "stopping"
    /\ queue' = <<SHUTDOWN>> \o queue
    /\ lpc' = "stopped"
    /\ UNCHANGED <<data, index, allocVars, cur, workerVars, clientVars, histVars>>
    /\ UNCHANGED <<files, offTaskVars>>

\* The worker is between its processing write and a terminal write.
InProcessing(w) == wpc[w] \in {"enhance", "done_read", "done_save", "fail_read", "fail_save"}

\* The process ends (exit after shut-down, or a crash at any point): the
\* daemon worker thread and the request threads die with it; Redis stays.
process_dies ==
    /\ lpc # "down"
    /\ lpc' = "down"
    /\ cur' = 0
    /\ wpc' = [w \in Workers |-> "none"]
    /\ wjob' = [w \in Workers |-> NoJob]
    /\ wsnap' = [w \in Workers |-> NoTask]
    /\ wres' = [w \in Workers |-> None]
    /\ stopEvent' = [w \in Workers |-> FALSE]
    /\ stuck' = stuck \cup {wjob[w] : w \in {v \in Workers :
                           InProcessing(v) /\ data[wjob[v].id].status = "processing"}}
    /\ cpc' = [c \in Clients |-> "idle"]
    /\ cop' = [c \in Clients |-> "none"]
    /\ cid' = [c \in Clients |-> 0]
    /\ crec' = [c \in Clients |-> NoTask]
    /\ cset' = [c \in Clients |-> {}]
    /\ caught' = [w \in Workers |-> FALSE]
    /\ UNCHANGED <<storeVars, allocVars, lastWrite, cancelledQueued>>
    /\ UNCHANGED <<files, offTaskVars>>

(* ------------------------ workers/processor.py ------------------------ *)
\* The worker moves to position pc with these locals.
Goto(w, pc, job, snap, res) ==
    /\ wpc' = [wpc EXCEPT ![w] = pc]
    /\ wjob' = [wjob EXCEPT ![w] = job]
    /\ wsnap' = [wsnap EXCEPT ![w] = snap]
    /\ wres' = [wres EXCEPT ![w] = res]

\* Variant: an exception that reaches run ends the loop.
run_except_exits(w) ==
    /\ Goto(w, "stopped", NoJob, NoTask, None)
    /\ caught' = [caught EXCEPT ![w] = TRUE]

\* run's "except Exception": log, sleep one second, next iteration.
run_except(w) ==
    /\ Goto(w, "loop", NoJob, NoTask, None)
    /\ caught' = [caught EXCEPT ![w] = TRUE]

\* _process_task's "except Exception as exc": on to update_task(failed)
\* with str(exc).
process_task_except(w, text) ==
    /\ Goto(w, "fail_read", wjob[w], NoTask, text)
    /\ caught' = [caught EXCEPT ![w] = TRUE]

\* run: the loop condition "while not self._stop_event.is_set()".
run_check_stop(w) ==
    /\ wpc[w] = "loop"
    /\ Goto(w, IF stopEvent[w] THEN "stopped" ELSE "blpop", NoJob, NoTask, None)
    /\ UNCHANGED <<storeVars, allocVars, lpc, cur, stopEvent, clientVars, histVars>>
    /\ UNCHANGED <<files, offTaskVars>>

\* Variant: the head of the queue is read but not removed.
run_blpop_peek(w) ==
    /\ wpc[w] = "blpop"
    /\ IF queue = <<>>
       THEN /\ Goto(w, "loop", NoJob, NoTask, None)
            /\ caught' = [caught EXCEPT ![w] = FALSE]
       ELSE /\ UNCHANGED caught
            /\ IF Head(queue) = SHUTDOWN
               THEN Goto(w, "stopped", NoJob, NoTask, None)
               ELSE Goto(w, "get", Head(queue), NoTask, None)
    /\ UNCHANGED <<storeVars, allocVars, lpc, cur, stopEvent, clientVars, lastWrite,
                   cancelledQueued, stuck>>
    /\ UNCHANGED <<files, offTaskVars>>

\* run: BLPOP with a 5 s timeout; the sentinel breaks the loop, a task id
\* goes to _process_task, a timeout starts the next iteration.
run_blpop(w) ==
    /\ wpc[w] = "blpop"
    /\ IF queue = <<>>
       THEN /\ Goto(w, "loop", NoJob, NoTask, None)
            /\ caught' = [caught EXCEPT ![w] = FALSE]
            /\ UNCHANGED queue
       ELSE /\ queue' = Tail(queue)
            /\ UNCHANGED caught
            /\ IF Head(queue) = SHUTDOWN
               THEN Goto(w, "stopped", NoJob, NoTask, None)
               ELSE Goto(w, "get", Head(queue), NoTask, None)
    /\ UNCHANGED <<data, index, allocVars, lpc, cur, stopEvent, clientVars, lastWrite,
                   cancelledQueued, stuck>>
    /\ UNCHANGED <<files, offTaskVars>>

\* _process_task: get_task; a missing record is logged and skipped.
process_task_get(w) ==
    /\ wpc[w] = "get"
    /\ IF data[wjob[w].id] = NoTask
       THEN Goto(w, "loop", NoJob, NoTask, None)
       ELSE Goto(w, "mark_read", wjob[w], NoTask, None)
    /\ caught' = [caught EXCEPT ![w] = FALSE]
    /\ UNCHANGED <<storeVars, allocVars, lpc, cur, stopEvent, clientVars, lastWrite,
                   cancelledQueued, stuck>>
    /\ UNCHANGED <<files, offTaskVars>>

\* update_task(status = processing), the read; a KeyError leaves
\* _process_task and is caught by run.
process_task_mark_read(w) ==
    /\ wpc[w] = "mark_read"
    /\ IF data[wjob[w].id] = NoTask
       THEN run_except(w)
       ELSE /\ Goto(w, "mark_save", wjob[w], data[wjob[w].id], None)
            /\ UNCHANGED caught
    /\ UNCHANGED <<storeVars, allocVars, lpc, cur, stopEvent, clientVars, lastWrite,
                   cancelledQueued, stuck>>
    /\ UNCHANGED <<files, offTaskVars>>

\* The payload of the first write.
ProcessingPayload == TaskUpdate([status |-> "processing"])

\* Variant: the worker goes on to enhance_image without the first write.
process_task_mark_skip(w) ==
    /\ wpc[w] = "mark_save"
    /\ Goto(w, "enhance", wjob[w], NoTask, None)
    /\ UNCHANGED <<storeVars, allocVars, lpc, cur, stopEvent, clientVars, histVars>>
    /\ UNCHANGED <<files, offTaskVars>>

\* update_task(status = processing), the save.
process_task_mark_save(w) ==
    /\ wpc[w] = "mark_save"
    /\ save_task(wjob[w].id, update_task(wsnap[w], ProcessingPayload), "w_processing")
    /\ Goto(w, "enhance", wjob[w], NoTask, None)
    /\ UNCHANGED <<queue, allocVars, lpc, cur, stopEvent, clientVars, cancelledQueued,
                   stuck, caught>>
    /\ UNCHANGED <<files, offTaskVars>>

\* The adjustments argument of the worker's enhance_image call: the call
\* passes the two paths only, so the parameter keeps its default.
enhance_adjustments(w) == None

\* Variant: an exception of enhance_image is logged and the task is left
\* as it is.
process_task_enhance_swallows(w) ==
    /\ wpc[w] = "enhance"
    /\ \/ /\ files[wjob[w].id] # NoFile
          /\ \E m \in Metrics : Goto(w, "done_read", wjob[w], NoTask, m)
          /\ UNCHANGED caught
       \/ run_except(w)
    /\ UNCHANGED <<storeVars, allocVars, lpc, cur, stopEvent, clientVars, lastWrite,
                   cancelledQueued, stuck>>
    /\ UNCHANGED <<files, offTaskVars>>

\* enhance_image(source_path, output_path): returns metrics, or raises
\* (always when the source file cannot be read).
process_task_enhance(w) ==
    /\ wpc[w] = "enhance"
    /\ \/ /\ files[wjob[w].id] # NoFile
          /\ \E m \in Metrics : Goto(w, "done_read", wjob[w], NoTask, m)
          /\ UNCHANGED caught
       \/ \E e \in ImageErrors : process_task_except(w, e)
    /\ UNCHANGED <<storeVars, allocVars, lpc, cur, stopEvent, clientVars, lastWrite,
                   cancelledQueued, stuck>>
    /\ UNCHANGED <<files, offTaskVars>>

\* update_task(status = completed, ...), the read; it is inside the try,
\* so a KeyError goes to the except branch with its text.
process_task_done_read(w) ==
    /\ wpc[w] = "done_read"
    /\ IF data[wjob[w].id] = NoTask
       THEN process_task_except(w, KeyErrorText)
       ELSE /\ Goto(w, "done_save", wjob[w], data[wjob[w].id], wres[w])
            /\ UNCHANGED caught
    /\ UNCHANGED <<storeVars, allocVars, lpc, cur, stopEvent, clientVars, lastWrite,
                   cancelledQueued, stuck>>
    /\ UNCHANGED <<files, offTaskVars>>

\* The payload of the success branch.
CompletedPayload(w) ==
    TaskUpdate([status |-> "completed", metrics |-> wres[w], preview_url |-> "/preview",
                processed_at |-> Now, message |-> MsgDone])

\* Variant: the success branch leaves a record alone that was cancelled
\* in the meantime.
process_task_done_keep_cancelled(w) ==
    /\ wpc[w] = "done_save"
    /\ IF wsnap[w].status = "cancelled"
       THEN UNCHANGED <<data, index, lastWrite>>
       ELSE save_task(wjob[w].id, update_task(wsnap[w], CompletedPayload(w)), "w_completed")
    /\ Goto(w, "loop", NoJob, NoTask, None)
    /\ UNCHANGED <<queue, allocVars, lpc, cur, stopEvent, clientVars, cancelledQueued,
                   stuck, caught>>
    /\ UNCHANGED <<files, offTaskVars>>

\* update_task(status = completed, ...), the save.
process_task_done_save(w) ==
    /\ wpc[w] = "done_save"
    /\ save_task(wjob[w].id, update_task(wsnap[w], CompletedPayload(w)), "w_completed")
    /\ Goto(w, "loop", NoJob, NoTask, None)
    /\ UNCHANGED <<queue, allocVars, lpc, cur, stopEvent, clientVars, cancelledQueued,
                   stuck, caught>>
    /\ UNCHANGED <<files, offTaskVars>>

\* update_task(status = failed, message = str(exc)), the read; a KeyError
\* here leaves _process_task and is caught by run.
process_task_fail_read(w) ==
    /\ wpc[w] = "fail_read"
    /\ IF data[wjob[w].id] = NoTask
       THEN run_except(w)
       ELSE /\ Goto(w, "fail_save", wjob[w], data[wjob[w].id], wres[w])
            /\ UNCHANGED caught
    /\ UNCHANGED <<storeVars, allocVars, lpc, cur, stopEvent, clientVars, lastWrite,
                   cancelledQueued, stuck>>
    /\ UNCHANGED <<files, offTaskVars>>

\* Variant: the except branch stores a fixed text instead of str(exc).
FailedPayload_generic(w) == TaskUpdate([status |-> "failed", message |-> "processing failed"])

\* The payload of the except branch.
FailedPayload(w) == TaskUpdate([status |-> "failed", message |-> wres[w]])

\* update_task(status = failed, message = str(exc)), the save.
process_task_fail_save(w) ==
    /\ wpc[w] = "fail_save"
    /\ save_task(wjob[w].id, update_task(wsnap[w], FailedPayload(w)), "w_failed")
    /\ Goto(w, "loop", NoJob, NoTask, None)
    /\ UNCHANGED <<queue, allocVars, lpc, cur, stopEvent, clientVars, cancelledQueued,
                   stuck, caught>>
    /\ UNCHANGED <<files, offTaskVars>>

\* A storage write of the worker raises (connection lost): inside the try
\* of _process_task the except branch runs with the error's text, elsewhere
\* the exception reaches run's handler.
storage_fails(w) ==
    /\ wpc[w] \in {"mark_save", "done_save", "fail_save"}
    /\ IF wpc[w] = "done_save"
       THEN process_task_except(w, StorageErrorText)
       ELSE run_except(w)
    /\ UNCHANGED <<storeVars, allocVars, lpc, cur, stopEvent, clientVars, lastWrite,
                   cancelledQueued, stuck>>
    /\ UNCHANGED <<files, offTaskVars>>

(* --------------------------- specification ---------------------------- *)
Next ==
    \/ lifespan_start
    \/ stop_set_event
    \/ stop_lpush
    \/ process_dies
    \/ \E c \in Clients : create_from_upload(c)
    \/ \E c \in Clients, i \in Ids, adj \in Adjustments : apply_adjustments(c, i, adj)
    \/ \E c \in Clients, i \in Ids : cancel_task(c, i)
    \/ \E c \in Clients, i \in Ids, p \in PatchPayloads : patch_task(c, i, p)
    \/ \E c \in Clients, i \in Ids : enqueue_task(c, i)
    \/ \E c \in Clients : client_save(c)
    \/ \E c \in Clients : client_push(c)
    \/ \E c \in Clients : clear_all_ids(c)
    \/ \E c \in Clients : clear_all_mget(c)
    \/ \E c \in Clients : clear_all_delete(c)
    \/ \E w \in Workers : run_check_stop(w)
    \/ \E w \in Workers : run_blpop(w)
    \/ \E w \in Workers : process_task_get(w)
    \/ \E w \in Workers : process_task_mark_read(w)
    \/ \E w \in Workers : process_task_mark_save(w)
    \/ \E w \in Workers : process_task_enhance(w)
    \/ \E w \in Workers : process_task_done_read(w)
    \/ \E w \in Workers : process_task_done_save(w)
    \/ \E w \in Workers : process_task_fail_read(w)
    \/ \E w \in Workers : process_task_fail_save(w)
    \/ \E w \in Workers : storage_fails(w)

Spec == Init /\ [][Next]_vars

(* --------------------------- models/catalog.py ------------------------ *)
\* MODEL_CATALOG: kind of every model id.
MODEL_CATALOG ==
    [m \in {"RealESRGAN_RealESRGAN_x4plus_4x", "HAT_Real_GAN_4x",
            "SwinIR_realSR_BSRGAN_DFOWMFC_s64w8_SwinIR_L_GAN_4x", "DAT_light_2x",
            "RealCUGAN_Conservative_2x", "GFPGAN_v1.4", "PromptFix_diffusion",
            "IOPaint_lama", "CTSDG_iccv2021", "ShiftNet_pytorch", "CRFill_iccv2021"} |->
        [kind |-> CASE m = "GFPGAN_v1.4" -> "face"
                    [] m = "PromptFix_diffusion" -> "prompt"
                    [] m = "IOPaint_lama" -> "mask-inpaint"
                    [] m \in {"CTSDG_iccv2021", "ShiftNet_pytorch", "CRFill_iccv2021"} ->
                          "structure"
                    [] OTHER -> "superres"]]

\* get_model_spec: the catalog entry, or no entry (kind "none") for an id
\* that is not in the catalog.
get_model_spec(model_id) ==
    IF model_id \in DOMAIN MODEL_CATALOG THEN MODEL_CATALOG[model_id] ELSE [kind |-> "none"]

\* PipelineStageSpec(id, name, model_id, optional)
Stage(id, name, model_id, optional) ==
    [id |-> id, name |-> name, model_id |-> model_id, optional |-> optional]

\* PIPELINE_CATALOG (the display names are given in English).
PIPELINE_CATALOG ==
    [p \in {"superres_basic", "old_photo_restore", "prompt_inpaint", "mask_inpaint",
            "structure_fill"} |->
        CASE p = "superres_basic" ->
               [id |-> p, name |-> "basic super-resolution",
                stages |-> <<Stage("superres", "Final2x",
                                   "RealESRGAN_RealESRGAN_x4plus_4x", FALSE)>>]
          [] p = "old_photo_restore" ->
               [id |-> p, name |-> "old photo restoration",
                stages |-> <<Stage("face", "GFPGAN", "GFPGAN_v1.4", FALSE),
                             Stage("superres", "RealESRGAN",
                                   "RealESRGAN_RealESRGAN_x4plus_4x", FALSE)>>]
          [] p = "prompt_inpaint" ->
               [id |-> p, name |-> "prompt inpainting",
                stages |-> <<Stage("prompt", "PromptFix", "PromptFix_diffusion", FALSE)>>]
          [] p = "mask_inpaint" ->
               [id |-> p, name |-> "mask inpainting",
                stages |-> <<Stage("mask", "IOPaint", "IOPaint_lama", FALSE)>>]
          [] OTHER ->
               [id |-> p, name |-> "structure completion",
                stages |-> <<Stage("structure", "CTSDG", "CTSDG_iccv2021", FALSE),
                             Stage("texture", "Shift-Net", "ShiftNet_pytorch", TRUE),
                             Stage("context", "CR-Fill", "CRFill_iccv2021", TRUE)>>]]

(* ---------------------- services/pipeline_runner.py ------------------- *)
DEFAULT_PIPELINE_ID == "superres_basic"

\* Python truth of an optional string.
Truthy(x) == x # None /\ x # ""

\* Variant: an id that does not resolve falls back to the first pipeline
\* that has more than one stage.
resolve_pipeline_other(pipeline_id) ==
    IF Truthy(pipeline_id) /\ pipeline_id \in DOMAIN PIPELINE_CATALOG
    THEN PIPELINE_CATALOG[pipeline_id]
    ELSE PIPELINE_CATALOG["old_photo_restore"]

\* _resolve_pipeline
resolve_pipeline(pipeline_id) ==
    IF Truthy(pipeline_id) /\ pipeline_id \in DOMAIN PIPELINE_CATALOG
    THEN PIPELINE_CATALOG[pipeline_id]
    ELSE PIPELINE_CATALOG[DEFAULT_PIPELINE_ID]

\* stage_overrides.get(stage.id)
override_of(stage, stage_overrides) ==
    IF stage.id \in DOMAIN stage_overrides THEN stage_overrides[stage.id] ELSE None

\* Variant: the global override is taken for every stage, whatever the
\* kind of the stage's catalog model.
resolve_model_any_stage(stage, stage_overrides, fallback_model) ==
    IF Truthy(override_of(stage, stage_overrides))
    THEN override_of(stage, stage_overrides)
    ELSE IF Truthy(fallback_model) /\ get_model_spec(fallback_model).kind = "superres"
         THEN fallback_model
         ELSE stage.model_id

\* run_pipeline, the model id of a stage: the per-stage override, else the
\* global override when the stage's catalog model and the override are
\* both catalog models of kind superres, else the stage's catalog model.
resolve_model(stage, stage_overrides, fallback_model) ==
    IF Truthy(override_of(stage, stage_overrides))
    THEN override_of(stage, stage_overrides)
    ELSE IF /\ Truthy(fallback_model)
            /\ get_model_spec(stage.model_id).kind = "superres"
            /\ get_model_spec(fallback_model).kind = "superres"
         THEN fallback_model
         ELSE stage.model_id

\* Variant: a model id without a handler of its own is sent to the
\* super-resolution engine.
run_model_stage_superres_default(model_id) ==
    IF model_id = "GFPGAN_v1.4" THEN "gfpgan"
    ELSE IF model_id = "PromptFix_diffusion" THEN "promptfix"
    ELSE IF model_id = "IOPaint_lama" THEN "iopaint"
    ELSE "final2x"

\* run_model_stage: the handler a model id is sent to, "none" when the
\* function raises StageNotConfiguredError itself.
run_model_stage(model_id) ==
    IF get_model_spec(model_id).kind = "superres" THEN "final2x"
    ELSE IF model_id = "GFPGAN_v1.4" THEN "gfpgan"
    ELSE IF model_id = "PromptFix_diffusion" THEN "promptfix"
    ELSE IF model_id = "IOPaint_lama" THEN "iopaint"
    ELSE "none"

\* run_model_stage has a handler for the model: the super-resolution
\* models and three named ones; any other id raises StageNotConfiguredError.
HasHandler(model_id) == run_model_stage(model_id) # "none"

\* The text of the StageNotConfiguredError each handler raises when its
\* backend is disabled or has no model path, and the one run_model_stage
\* raises itself.
NotConfigured ==
    [h \in {"final2x", "gfpgan", "promptfix", "iopaint", "none"} |->
        CASE h = "final2x" -> "Final2x is disabled"
          [] h = "gfpgan" -> "gfpgan_model_path is not set"
          [] h = "promptfix" -> "PROMPTFIX_MODEL_PATH is not set"
          [] h = "iopaint" -> "IOPAINT_MODEL_PATH is not set"
          [] OTHER -> "model has no handler"]

\* A mask payload is the sequence of the pieces of its text; <<>> is the
\* empty string and also stands for an absent mask_data (both are false in
\* Python).  PngBody is the base64 text of a PNG image, TextBody the base64
\* text of bytes that are no image, BadBody a text base64 cannot decode.
PngBody == "iVBORw0KGgoAAAANSUhEUg"
TextBody == "aGVsbG8="
BadBody == "abc"
ValidMask == <<"data:", "image/png;base64", ",", PngBody>>
MaskPayloads ==
    {<<>>, <<PngBody>>, <<"data:", "image/png;base64">>,
     <<"data:", "image/png;base64", ",">>,
     <<"data:", "image/png;base64", ",", BadBody>>,
     <<"data:", "image/png;base64", ",", TextBody>>, ValidMask}

\* The outcome of a call: kind is "decoded", "config" (a
\* StageNotConfiguredError) or "exception" (any other exception).
Outcome(kind, text) == [kind |-> kind, text |-> text]

\* data_url.split(",", 1)[1]: the pieces after the first comma.
after_comma(data_url) ==
    LET k == CHOOSE j \in 1..Len(data_url) :
                 data_url[j] = "," /\ \A m \in 1..(j - 1) : data_url[m] # ","
    IN SubSeq(data_url, k + 1, Len(data_url))

\* base64.b64decode(payload): the bytes, or binascii.Error for a text with
\* incorrect padding.
b64decode(payload) ==
    IF payload = <<>> THEN "empty"
    ELSE IF payload = <<PngBody>> THEN "png image"
    ELSE IF payload = <<TextBody>> THEN "hello"
    ELSE "binascii.Error"

\* _ensure_data_url_image: the outcomes of decoding a payload.  Only the
\* prefix test, the split and a None result of cv2.imdecode raise
\* StageNotConfiguredError; b64decode is outside the try block; for an
\* empty buffer cv2.imdecode raises cv2.error or returns None, depending
\* on the OpenCV build.
ensure_data_url_image(data_url) ==
    IF data_url = <<>> \/ data_url[1] # "data:"
    THEN {Outcome("config", "mask must be a data URL")}
    ELSE IF \A j \in 1..Len(data_url) : data_url[j] # ","
    THEN {Outcome("config", "mask data URL is invalid")}
    ELSE LET binary == b64decode(after_comma(data_url))
         IN CASE binary = "binascii.Error" ->
                   {Outcome("exception", "binascii.Error: Incorrect padding")}
              [] binary = "empty" ->
                   {Outcome("exception", "cv2.error: !buf.empty()"),
                    Outcome("config", "cannot parse the mask image")}
              [] binary = "png image" -> {Outcome("decoded", "")}
              [] OTHER -> {Outcome("config", "cannot parse the mask image")}

\* _run_promptfix and _run_iopaint: what the mask of the context makes of
\* the call, for the two handlers that read it.
mask_outcomes(mask_data) ==
    IF mask_data = <<>> THEN {Outcome("config", "a mask is required")}
    ELSE ensure_data_url_image(mask_data)

MaskHandlers == {"promptfix", "iopaint"}

MaskOutcomes(model_id, kind) ==
    IF run_model_stage(model_id) \in MaskHandlers
    THEN {o.text : o \in {x \in mask_outcomes(padj.mask_data) : x.kind = kind}}
    ELSE {}

\* The handler of the model can return an image with the mask of the run.
MaskDecodes(model_id) ==
    run_model_stage(model_id) \in MaskHandlers => MaskOutcomes(model_id, "decoded") # {}

\* The texts of the StageNotConfiguredError a stage run with this model can
\* raise, and of the other exceptions a handler can raise.
ConfigErrors(model_id) ==
    {NotConfigured[run_model_stage(model_id)]} \cup MaskOutcomes(model_id, "config")

StageErrors ==
    {"stage failed", "binascii.Error: Incorrect padding", "cv2.error: !buf.empty()"}

HandlerErrors(model_id) == {"stage failed"} \cup MaskOutcomes(model_id, "exception")

\* Readings of time.perf_counter() and the time a stage can take.
MaxClock == 1
MaxTick == 1

\* (time.perf_counter() - start_time) * 1000
duration_ms(start_time, end_time) == (end_time - start_time) * 1000

\* _build_stage_summary
build_stage_summary(stage, model_id, status, duration, message) ==
    [stage_id |-> stage.id, stage_name |-> stage.name, model_id |-> model_id,
     status |-> status, duration_ms |-> duration, message |-> message]

\* The adjustments run_pipeline is called with.
StageIds == {"superres", "face", "prompt", "mask", "structure", "texture", "context"}
RequestedPipelineIds == {None, "", "no_such_pipeline"} \cup DOMAIN PIPELINE_CATALOG
OverrideModels == {"DAT_light_2x", "GFPGAN_v1.4", "no_such_model"}
FallbackModels == {None, "HAT_Real_GAN_4x", "GFPGAN_v1.4", "no_such_model"}

\* pipeline_stage_overrides: entries for at most two stage ids (None stands
\* for a stage id without an entry).
StageOverrides ==
    {[sid \in StageIds |-> IF sid = s THEN m ELSE IF sid = t THEN n ELSE None] :
        s \in StageIds, t \in StageIds, m \in OverrideModels \cup {None},
        n \in OverrideModels \cup {None}}

\* The stages of the resolved pipeline, the stage the loop is at and its
\* model id.
PipelineStages == PIPELINE_CATALOG[ppipe].stages
CurStage == PipelineStages[pidx + 1]
CurModel == resolve_model(CurStage, padj.pipeline_stage_overrides, padj.model_name)

\* run_pipeline is called with some adjustments.
PipeInit ==
    /\ OffPipeIdle
    /\ padj \in [pipeline_id : RequestedPipelineIds,
                 pipeline_stage_overrides : StageOverrides,
                 model_name : FallbackModels,
                 mask_data : {ValidMask}]
    /\ ppipe = None
    /\ pidx = 0
    /\ ptrace = <<>>
    /\ pimage = <<>>
    /\ pout = "called"
    /\ perr = None
    /\ psummary = None

\* run_pipeline up to the loop: the pipeline is resolved, the trace is
\* empty, the working image is the input image.
run_pipeline_start ==
    /\ pout = "called"
    /\ ppipe' = resolve_pipeline(padj.pipeline_id).id
    /\ pidx' = 0
    /\ ptrace' = <<>>
    /\ pimage' = <<>>
    /\ pout' = "running"
    /\ UNCHANGED <<padj, perr, psummary, offPipeVars>>

\* The loop is at a stage.
AtStage == pout = "running" /\ pidx < Len(PipelineStages)

\* Variant: a stage that ran leaves no entry in the trace.
stage_executed_untraced ==
    /\ AtStage
    /\ HasHandler(CurModel)
    /\ pimage' = Append(pimage, CurModel)
    /\ pidx' = pidx + 1
    /\ UNCHANGED <<padj, ppipe, ptrace, pout, perr, psummary, offPipeVars>>

\* Variant: a stage is run on the image run_pipeline was called with, not
\* on the working image.
stage_executed_on_input ==
    /\ AtStage
    /\ HasHandler(CurModel)
    /\ pimage' = <<CurModel>>
    /\ \E t0 \in 0..MaxClock, d \in 0..MaxTick :
          ptrace' = Append(ptrace, build_stage_summary(CurStage, CurModel, "executed",
                                                       duration_ms(t0, t0 + d), None))
    /\ pidx' = pidx + 1
    /\ UNCHANGED <<padj, ppipe, pout, perr, psummary, offPipeVars>>

\* One iteration, run_model_stage returns: the working image is replaced
\* and an executed entry appended.
stage_executed ==
    /\ AtStage
    /\ HasHandler(CurModel)
    /\ MaskDecodes(CurModel)
    /\ pimage' = Append(pimage, CurModel)
    /\ \E t0 \in 0..MaxClock, d \in 0..MaxTick :
          ptrace' = Append(ptrace, build_stage_summary(CurStage, CurModel, "executed",
                                                       duration_ms(t0, t0 + d), None))
    /\ pidx' = pidx + 1
    /\ UNCHANGED <<padj, ppipe, pout, perr, psummary, offPipeVars>>

\* Variant: a StageNotConfiguredError aborts the run whether or not the
\* stage is optional.
stage_not_configured_fatal ==
    /\ AtStage
    /\ \E e \in ConfigErrors(CurModel), t0 \in 0..MaxClock, d \in 0..MaxTick :
          /\ ptrace' = Append(ptrace, build_stage_summary(CurStage, CurModel, "skipped",
                                                          duration_ms(t0, t0 + d), e))
          /\ pout' = "raised"
          /\ perr' = e
    /\ pidx' = pidx + 1
    /\ UNCHANGED <<padj, ppipe, pimage, psummary, offPipeVars>>

\* Variant: a StageNotConfiguredError never aborts the run.
stage_not_configured_lenient ==
    /\ AtStage
    /\ \E e \in ConfigErrors(CurModel), t0 \in 0..MaxClock, d \in 0..MaxTick :
          ptrace' = Append(ptrace, build_stage_summary(CurStage, CurModel, "skipped",
                                                       duration_ms(t0, t0 + d), e))
    /\ pidx' = pidx + 1
    /\ UNCHANGED <<padj, ppipe, pimage, pout, perr, psummary, offPipeVars>>

\* One iteration, run_model_stage raises StageNotConfiguredError: a skipped
\* entry with the text is appended, the working image stays, and the error
\* is raised again unless the stage is optional.
stage_not_configured ==
    /\ AtStage
    /\ \E e \in ConfigErrors(CurModel), t0 \in 0..MaxClock, d \in 0..MaxTick :
          /\ ptrace' = Append(ptrace, build_stage_summary(CurStage, CurModel, "skipped",
                                                          duration_ms(t0, t0 + d), e))
          /\ IF CurStage.optional
             THEN UNCHANGED <<pout, perr>>
             ELSE pout' = "raised" /\ perr' = e
    /\ pidx' = pidx + 1
    /\ UNCHANGED <<padj, ppipe, pimage, psummary, offPipeVars>>

\* Variant: any other exception of an optional stage is recorded and the
\* run goes on.
stage_exception_optional_goes_on ==
    /\ AtStage
    /\ HasHandler(CurModel)
    /\ \E e \in StageErrors, t0 \in 0..MaxClock, d \in 0..MaxTick :
          /\ ptrace' = Append(ptrace, build_stage_summary(CurStage, CurModel, "error",
                                                          duration_ms(t0, t0 + d), e))
          /\ IF CurStage.optional
             THEN UNCHANGED <<pout, perr>>
             ELSE pout' = "raised" /\ perr' = e
    /\ pidx' = pidx + 1
    /\ UNCHANGED <<padj, ppipe, pimage, psummary, offPipeVars>>

\* One iteration, a handler raises any other exception: an error entry
\* with the text is appended and the exception is raised again.
stage_exception ==
    /\ AtStage
    /\ HasHandler(CurModel)
    /\ \E e \in HandlerErrors(CurModel), t0 \in 0..MaxClock, d \in 0..MaxTick :
          /\ ptrace' = Append(ptrace, build_stage_summary(CurStage, CurModel, "error",
                                                          duration_ms(t0, t0 + d), e))
          /\ pout' = "raised"
          /\ perr' = e
    /\ pidx' = pidx + 1
    /\ UNCHANGED <<padj, ppipe, pimage, psummary, offPipeVars>>

\* After the last stage: the summary with the resolved pipeline's id and
\* name and the trace.
run_pipeline_return ==
    /\ pout = "running"
    /\ pidx = Len(PipelineStages)
    /\ psummary' = [pipeline_id |-> PIPELINE_CATALOG[ppipe].id,
                    pipeline_name |-> PIPELINE_CATALOG[ppipe].name,
                    stages |-> ptrace]
    /\ pout' = "returned"
    /\ UNCHANGED <<padj, ppipe, pidx, ptrace, pimage, perr, offPipeVars>>

PipeNext ==
    \/ run_pipeline_start
    \/ stage_executed
    \/ stage_not_configured
    \/ stage_exception
    \/ run_pipeline_return

PipeSpec == PipeInit /\ [][PipeNext]_vars

\* run_pipeline is called for a pipeline with a stage that reads the mask
\* of the request: mask_inpaint, prompt_inpaint, or structure_fill with its
\* first stage sent to a super-resolution model and its optional texture
\* stage sent to one of the two mask handlers.
MaskStageOverrides ==
    {[sid \in StageIds |-> IF sid = "structure" THEN "DAT_light_2x"
                           ELSE IF sid = "texture" THEN m ELSE None] :
        m \in {None, "IOPaint_lama", "PromptFix_diffusion"}}

MaskInit ==
    /\ OffPipeIdle
    /\ padj \in [pipeline_id : {"mask_inpaint", "prompt_inpaint", "structure_fill"},
                 pipeline_stage_overrides : MaskStageOverrides,
                 model_name : {None},
                 mask_data : MaskPayloads]
    /\ ppipe = None
    /\ pidx = 0
    /\ ptrace = <<>>
    /\ pimage = <<>>
    /\ pout = "called"
    /\ perr = None
    /\ psummary = None

MaskSpec == MaskInit /\ [][PipeNext]_vars

(* ---------------------- services/final2x_engine.py -------------------- *)
FALLBACK_TILE_SIZES == <<512, 384, 320, 288, 256, 224, 192, 160, 144, 128, 112, 96, 80, 72, 64>>

Range(seq) == {seq[k] : k \in 1..Len(seq)}

\* max(self.FALLBACK_TILE_SIZES)
SeqMax(seq) == CHOOSE m \in Range(seq) : \A n \in Range(seq) : n <= m

\* __init__: the tile size the model is first loaded with (0 stands for
\* None, tiling disabled).
initial_tile(cfg) ==
    IF cfg.final2x_use_tile /\ cfg.final2x_tile_size > 0 THEN cfg.final2x_tile_size ELSE 0

\* __init__ / _select_device: the device every load is requested on.
requested_device(cfg) == IF cfg.final2x_device # "" THEN cfg.final2x_device ELSE "cpu"

\* Variant: the candidates are not bounded by the current tile size.
fallback_tile_sizes_unbounded(current, config_tile) == FALLBACK_TILE_SIZES

\* _fallback_tile_sizes: with tiling disabled the configured tile size
\* first; then the sizes of FALLBACK_TILE_SIZES below the current tile size
\* (all of them with tiling disabled), in the order of that tuple, those
\* already listed left out.
fallback_tile_sizes(current, config_tile) ==
    LET max_tile == IF current # 0 THEN current ELSE SeqMax(FALLBACK_TILE_SIZES) + 1
        candidates == IF current = 0 /\ config_tile > 0 THEN <<config_tile>> ELSE <<>>
    IN  candidates \o SelectSeq(FALLBACK_TILE_SIZES,
                                LAMBDA size : size < max_tile /\ size \notin Range(candidates))

\* What the backend can do with an inference on a model loaded with this
\* tile size, and with a load: in mode "any" each call may succeed, exhaust
\* memory or raise another RuntimeError; in mode "limit" a call exhausts
\* memory exactly with tiling disabled or a tile size above the limit.
InferenceOutcomes(tile) ==
    IF backend.mode = "any" THEN {"ok", "oom", "error"}
    ELSE IF tile = 0 \/ tile > backend.limit THEN {"oom"} ELSE {"ok"}

LoadOutcomes(tile) ==
    IF backend.mode = "any" THEN {"ok", "oom"} ELSE {"ok"}

\* An exception: a memory exhaustion is told from the others by the tile
\* size of the attempt that raised it.
Exc(kind, tile) == [kind |-> kind, tile |-> tile]

\* The settings and backends the engine is run under.
TileSizeSettings == {0, 128, 600}
Backends == {[mode |-> "any", limit |-> 0], [mode |-> "limit", limit |-> 128],
             [mode |-> "limit", limit |-> 0]}
PreviewFlagValues == {"unset", "true", "false"}

\* The preview requests made.
MaxPreviews == 1
MaxGets == 2

\* One task uploaded and taken from the queue by the worker thread; the
\* engine as constructed from the settings.
EngineInit ==
    /\ OffEngineIdle
    /\ settings \in [final2x_enabled : BOOLEAN,
                     final2x_model_name : {DefaultSettings.final2x_model_name},
                     final2x_target_scale : {DefaultSettings.final2x_target_scale},
                     final2x_use_tile : BOOLEAN,
                     final2x_tile_size : TileSizeSettings, final2x_device : {"auto"},
                     preview_enable_final2x : PreviewFlagValues]
    /\ backend \in Backends
    /\ engine = [tile |-> initial_tile(settings), model |-> "loaded"]
    /\ elock = NoCaller
    /\ call = [t \in Callers |-> IdleCall]

SetCall(t, pc, cand, tried, orig, exc) ==
    call' = [call EXCEPT ![t] = [pc |-> pc, cand |-> cand, tried |-> tried,
                                 orig |-> orig, exc |-> exc]]

\* A thread is past its super-resolution call, or never made one.
Leave(t, exc) == SetCall(t, "after", <<>>, <<>>, NoExc, exc)

(* the worker thread: workers/processor.py _process_task, services/processor.py enhance_image *)
\* update_task(status = processing) of the dequeued task, and enhance_image
\* up to sr_engine.process: super-resolution is run when final2x_enabled
\* is set.
worker_mark ==
    /\ call[WorkerThread].pc = "idle"
    /\ data[1].status = "pending"
    /\ data' = [data EXCEPT ![1] = update_task(data[1], ProcessingPayload)]
    /\ IF settings.final2x_enabled
       THEN SetCall(WorkerThread, "lock", <<>>, <<>>, NoExc, NoExc)
       ELSE Leave(WorkerThread, NoExc)
    /\ UNCHANGED <<ops, taskRest, settings, backend, engine, elock, pipeVars, cacheVars,
                   scaleVars, backendVars>>

\* Variant: enhance_image lets every exception of process() through, so
\* memory exhaustion fails the task like any other error.
worker_finish_oom_fails ==
    /\ call[WorkerThread].pc = "after"
    /\ data' = [data EXCEPT ![1] =
                  IF call[WorkerThread].exc.kind = "none"
                  THEN update_task(data[1], TaskUpdate([status |-> "completed", metrics |-> "m1",
                                                        preview_url |-> "/preview",
                                                        processed_at |-> Now, message |-> MsgDone]))
                  ELSE update_task(data[1], TaskUpdate([status |-> "failed",
                                                        message |-> call[WorkerThread].exc.kind]))]
    /\ call' = [call EXCEPT ![WorkerThread] = IdleCall]
    /\ UNCHANGED <<ops, taskRest, settings, backend, engine, elock, pipeVars, cacheVars,
                   scaleVars, backendVars>>

\* The rest of enhance_image and of _process_task: memory exhaustion is
\* caught and the original image taken; any other exception fails the task.
worker_finish ==
    /\ call[WorkerThread].pc = "after"
    /\ data' = [data EXCEPT ![1] =
                  IF call[WorkerThread].exc.kind \in {"none", "oom"}
                  THEN update_task(data[1], TaskUpdate([status |-> "completed", metrics |-> "m1",
                                                        preview_url |-> "/preview",
                                                        processed_at |-> Now, message |-> MsgDone]))
                  ELSE update_task(data[1], TaskUpdate([status |-> "failed",
                                                        message |-> call[WorkerThread].exc.kind]))]
    /\ call' = [call EXCEPT ![WorkerThread] = IdleCall]
    /\ UNCHANGED <<ops, taskRest, settings, backend, engine, elock, pipeVars, cacheVars,
                   scaleVars, backendVars>>

(* a request thread: api/routes/tasks.py preview_adjustments, services/processor.py generate_preview_image *)
\* Variant: the preview request stores a note on the record it previews.
preview_adjustments_noted(c, i) ==
    /\ call[c].pc = "idle"
    /\ ops < MaxPreviews
    /\ \A d \in Clients : d < c => call[d].pc # "idle"
    /\ ops' = ops + 1
    /\ data' = [data EXCEPT ![i] = IF data[i] = NoTask THEN NoTask
                                  ELSE update_task(data[i], TaskUpdate([message |-> "preview"]))]
    /\ IF data[i] = NoTask THEN UNCHANGED call
       ELSE IF ~settings.final2x_enabled THEN Leave(c, NoExc)
       ELSE IF settings.preview_enable_final2x = "unset" THEN Leave(c, Exc("attribute", 0))
       ELSE IF settings.preview_enable_final2x = "true"
            THEN SetCall(c, "lock", <<>>, <<>>, NoExc, NoExc)
       ELSE Leave(c, NoExc)
    /\ UNCHANGED <<taskRest, settings, backend, engine, elock, pipeVars, cacheVars,
                   scaleVars, backendVars>>

\* The preview request up to sr_engine.process: get_task (404 for an id
\* without a record), then can_run_sr, which reads settings.final2x_enabled
\* and, when that is set, the attribute settings.preview_enable_final2x.
preview_adjustments(c, i) ==
    /\ call[c].pc = "idle"
    /\ ops < MaxPreviews
    /\ \A d \in Clients : d < c => call[d].pc # "idle"
    /\ ops' = ops + 1
    /\ IF data[i] = NoTask THEN UNCHANGED call
       ELSE IF ~settings.final2x_enabled THEN Leave(c, NoExc)
       ELSE IF settings.preview_enable_final2x = "unset" THEN Leave(c, Exc("attribute", 0))
       ELSE IF settings.preview_enable_final2x = "true"
            THEN SetCall(c, "lock", <<>>, <<>>, NoExc, NoExc)
       ELSE Leave(c, NoExc)
    /\ UNCHANGED <<data, taskRest, settings, backend, engine, elock, pipeVars, cacheVars,
                   scaleVars, backendVars>>

\* The response: the preview, or 500 for any exception but memory
\* exhaustion, which is caught and the original image taken.
preview_respond(c) ==
    /\ call[c].pc = "after"
    /\ call' = [call EXCEPT ![c] = IdleCall]
    /\ UNCHANGED <<data, ops, taskRest, settings, backend, engine, elock, pipeVars, cacheVars,
                   scaleVars, backendVars>>

(* Final2xEngine.process: with self._lock: _run_inference_with_retry *)
\* Variant: the lock is not taken into account.
process_acquire_unlocked(t) ==
    /\ call[t].pc = "lock"
    /\ elock' = t
    /\ SetCall(t, "infer", <<>>, <<>>, NoExc, NoExc)
    /\ UNCHANGED <<data, ops, taskRest, settings, backend, engine, pipeVars, cacheVars,
                   scaleVars, backendVars>>

\* with self._lock: the thread waits until the lock is free and takes it.
process_acquire(t) ==
    /\ call[t].pc = "lock"
    /\ elock = NoCaller
    /\ elock' = t
    /\ SetCall(t, "infer", <<>>, <<>>, NoExc, NoExc)
    /\ UNCHANGED <<data, ops, taskRest, settings, backend, engine, pipeVars, cacheVars,
                   scaleVars, backendVars>>

\* _run_inference_with_retry: the first inference.  Memory exhaustion
\* starts the recovery with the candidates of _fallback_tile_sizes; any
\* other exception leaves process (self._model is None after a failed
\* load: the call on it raises AttributeError).
run_inference(t) ==
    /\ call[t].pc = "infer"
    /\ IF engine.model = "none"
       THEN SetCall(t, "unlock", <<>>, <<>>, NoExc, Exc("attribute", engine.tile))
       ELSE \E o \in InferenceOutcomes(engine.tile) :
               CASE o = "ok" -> SetCall(t, "unlock", <<>>, <<>>, NoExc, NoExc)
                 [] o = "error" -> SetCall(t, "unlock", <<>>, <<>>, NoExc,
                                           Exc("runtime", 0))
                 [] OTHER -> SetCall(t, "recover",
                                     fallback_tile_sizes(engine.tile, settings.final2x_tile_size),
                                     <<>>, Exc("oom", engine.tile), NoExc)
    /\ UNCHANGED <<data, ops, taskRest, settings, backend, engine, elock, pipeVars, cacheVars,
                   scaleVars, backendVars>>

\* One iteration of the loop of _recover_from_oom with the tile size
\* loaded recorded or not, on a device, and the exception raised when no
\* candidate is left.
recover_step(t, recorded, device, exhausted) ==
    /\ call[t].pc = "recover"
    /\ IF call[t].cand = <<>>
       THEN /\ SetCall(t, "unlock", <<>>, call[t].tried, call[t].orig, exhausted)
            /\ UNCHANGED engine
       ELSE LET tile_size == Head(call[t].cand)
                tried == Append(call[t].tried, [tile |-> tile_size, device |-> device])
                loaded == [tile |-> IF recorded THEN tile_size ELSE engine.tile,
                           model |-> "loaded"]
            IN  \/ /\ "oom" \in LoadOutcomes(tile_size)
                   /\ engine' = [engine EXCEPT !.model = "none"]
                   /\ SetCall(t, "recover", Tail(call[t].cand), tried, call[t].orig, NoExc)
                \/ /\ engine' = loaded
                   /\ \E o \in InferenceOutcomes(tile_size) :
                         CASE o = "ok" ->
                                SetCall(t, "unlock", <<>>, tried, call[t].orig, NoExc)
                           [] o = "error" ->
                                SetCall(t, "unlock", <<>>, tried, call[t].orig,
                                        Exc("runtime", 0))
                           [] OTHER ->
                                SetCall(t, "recover", Tail(call[t].cand), tried,
                                        call[t].orig, NoExc)
    /\ UNCHANGED <<data, ops, taskRest, settings, backend, elock, pipeVars, cacheVars,
                   scaleVars, backendVars>>

\* Variant: when every candidate failed, the exception of the last retry
\* is raised.
recover_from_oom_raise_last(t) ==
    recover_step(t, TRUE, requested_device(settings),
                 IF call[t].tried = <<>> THEN call[t].orig
                 ELSE Exc("oom", call[t].tried[Len(call[t].tried)].tile))

\* Variant: _load_model does not record the tile size it loaded with.
recover_from_oom_tile_unrecorded(t) ==
    recover_step(t, FALSE, requested_device(settings), call[t].orig)

\* _recover_from_oom, one iteration of its loop, or its end: with no
\* candidate left the original exception is raised; else
\* _load_model(tile_size, requested device), which sets _model to None,
\* loads, and on success records the model and the tile size, and the
\* retried inference: its result is returned, memory exhaustion (of the
\* load or of the inference) goes on to the next candidate, any other
\* RuntimeError is raised.
recover_from_oom(t) ==
    recover_step(t, TRUE, requested_device(settings), call[t].orig)

\* The end of the with block: the lock is released, whether the block
\* returned or raised.
process_release(t) ==
    /\ call[t].pc = "unlock"
    /\ elock' = NoCaller
    /\ Leave(t, call[t].exc)
    /\ UNCHANGED <<data, ops, taskRest, settings, backend, engine, pipeVars, cacheVars,
                   scaleVars, backendVars>>

EngineNext ==
    \/ worker_mark
    \/ worker_finish
    \/ \E c \in Clients, i \in Ids : preview_adjustments(c, i)
    \/ \E c \in Clients : preview_respond(c)
    \/ \E t \in Callers : process_acquire(t)
    \/ \E t \in Callers : run_inference(t)
    \/ \E t \in Callers : recover_from_oom(t)
    \/ \E t \in Callers : process_release(t)

EngineSpec == EngineInit /\ [][EngineNext]_vars

(* ------- services/final2x_engine.py: model ids and the engine cache ----- *)
ALLOWED_MODEL_IDS == {RealESRGAN_x4plus}

\* str.replace(".pth", ""): the occurrences of ".pth" found from left to
\* right, without overlap, are removed; the result is not scanned again.
RECURSIVE replace_pth(_)
replace_pth(s) ==
    IF s = <<>> THEN <<>>
    ELSE IF Len(s) >= 4 /\ SubSeq(s, 1, 4) = Pth
         THEN replace_pth(SubSeq(s, 5, Len(s)))
         ELSE <<Head(s)>> \o replace_pth(Tail(s))

\* Variant: a name outside the allow-list is kept, as a direct path or URL.
normalize_model_id_any(model_name, fallback) == replace_pth(model_name)

\* _normalize_model_id
normalize_model_id(model_name, fallback) ==
    LET normalized == replace_pth(model_name)
    IN IF normalized \notin ALLOWED_MODEL_IDS THEN fallback ELSE normalized

\* settings.final2x_model_name.replace(".pth", "")
configured_fallback(cfg) == replace_pth(cfg.final2x_model_name)

PRESET_MODEL_OVERRIDES ==
    [p \in {"night", "haze", "vintage", "daily"} |-> RealESRGAN_x4plus]

\* resolve_model_for_adjustments: the explicit model name, else the model
\* of the preset, both normalized; no name when neither is given.
resolve_model_for_adjustments(adjustments, cfg) ==
    IF adjustments.model_name # NoName
    THEN normalize_model_id(adjustments.model_name, configured_fallback(cfg))
    ELSE IF adjustments.preset_id \in DOMAIN PRESET_MODEL_OVERRIDES
         THEN normalize_model_id(PRESET_MODEL_OVERRIDES[adjustments.preset_id],
                                 configured_fallback(cfg))
         ELSE NoName

\* get_final2x_engine: effective_name, the model name _build_engine is
\* called with.  The other arguments of _build_engine come from the
\* settings, which are the same for every call.
effective_name(model_name, cfg) ==
    LET fallback == configured_fallback(cfg)
    IN normalize_model_id(IF model_name # NoName THEN model_name ELSE fallback, fallback)

\* The names a request or a pipeline stage supplies.
ModelNames ==
    {NoName, RealESRGAN_x4plus, RealESRGAN_x4plus \o Pth, <<"DAT_light_2x">>,
     <<"/models/custom">> \o Pth, <<".", "p">> \o Pth \o <<"t", "h">>}
PresetIds == {None, "night", "no_such_preset"}
\* The values of final2x_model_name in the deployment's configuration.
ConfiguredNames == {RealESRGAN_x4plus, RealESRGAN_x4plus \o Pth, <<"HAT_Real_GAN_4x">>}

CacheInit ==
    /\ OffCacheIdle
    /\ CacheIdle
    /\ settings \in {[DefaultSettings EXCEPT !.final2x_model_name = n] : n \in ConfiguredNames}
    /\ backend = [mode |-> "any", limit |-> 0]
    /\ engine = [tile |-> 0, model |-> "loaded"]
    /\ elock = NoCaller
    /\ call = [t \in Callers |-> IdleCall]

\* get_final2x_engine up to the cache lookup of _build_engine: a hit
\* returns the cached engine, a miss goes on to call the wrapped function.
\* The cache holds up to 8 entries; fewer keys than that occur here.
get_final2x_engine(t, supplied, model_name) ==
    LET key == effective_name(model_name, settings)
        hit == {e \in lru.cache : e.key = key}
    IN /\ gcall[t].pc = "idle"
       /\ lru.hits + lru.misses < MaxGets
       /\ IF hit # {}
          THEN /\ lru' = [lru EXCEPT !.hits = @ + 1]
               /\ gcall' = [gcall EXCEPT ![t] =
                               [pc |-> "got", name |-> supplied, key |-> key,
                                got |-> (CHOOSE e \in hit : TRUE).n]]
          ELSE /\ lru' = [lru EXCEPT !.misses = @ + 1]
               /\ gcall' = [gcall EXCEPT ![t] =
                               [pc |-> "build", name |-> supplied, key |-> key, got |-> 0]]
       /\ UNCHANGED <<built, offCacheVars>>

\* enhance_image and generate_preview_image: the model of the adjustments,
\* then the engine for it.  The worker passes no adjustments.
enhance_image_engine(t, adjustments) ==
    /\ t = WorkerThread => adjustments = [model_name |-> NoName, preset_id |-> None]
    /\ get_final2x_engine(t, adjustments.model_name,
                          resolve_model_for_adjustments(adjustments, settings))

\* _run_final2x_superres: the engine for the model id of the stage.
run_final2x_superres_engine(t, model_id) ==
    /\ model_id # NoName
    /\ get_final2x_engine(t, model_id, model_id)

\* _build_engine after a miss: a new Final2xEngine is constructed, with
\* the model loaded; it is stored in the cache unless the key has been
\* stored in the meantime, and it is what this caller gets either way.
build_engine(t) ==
    /\ gcall[t].pc = "build"
    /\ LET key == gcall[t].key
           inst == [key |-> key, n |-> Cardinality({b \in built : b.key = key}) + 1]
       IN /\ built' = built \cup {inst}
          /\ lru' = IF \E e \in lru.cache : e.key = key
                    THEN lru
                    ELSE [lru EXCEPT !.cache = @ \cup {inst}]
          /\ gcall' = [gcall EXCEPT ![t].pc = "got", ![t].got = inst.n]
    /\ UNCHANGED offCacheVars

\* The construction raises (the device or the weights are not available):
\* nothing is cached.
build_engine_raises(t) ==
    /\ gcall[t].pc = "build"
    /\ gcall' = [gcall EXCEPT ![t].pc = "raised"]
    /\ UNCHANGED <<lru, built, offCacheVars>>

\* The caller is done with the engine it got.
engine_call_over(t) ==
    /\ gcall[t].pc \in {"got", "raised"}
    /\ gcall' = [gcall EXCEPT ![t] = IdleGet]
    /\ UNCHANGED <<lru, built, offCacheVars>>

CacheNext ==
    \/ \E t \in Callers, n \in ModelNames, p \in PresetIds :
          enhance_image_engine(t, [model_name |-> n, preset_id |-> p])
    \/ \E t \in Callers, n \in ModelNames : run_final2x_superres_engine(t, n)
    \/ \E t \in Callers : build_engine(t)
    \/ \E t \in Callers : build_engine_raises(t)
    \/ \E t \in Callers : engine_call_over(t)

CacheSpec == CacheInit /\ [][CacheNext]_vars

(* ------- services/final2x_engine.py: the sizes of process() ------------ *)
pad_unit == 16

\* int(round(n / d)) for n >= 0, d > 0: Python rounds a tie to the even
\* neighbour.  For the scale factors used here the float product has the
\* same rounding as the exact quotient.
round_half_even(n, d) ==
    LET q == n \div d
        r == n % d
    IN IF 2 * r < d THEN q
       ELSE IF 2 * r > d THEN q + 1
       ELSE IF q % 2 = 0 THEN q ELSE q + 1

\* _build_engine: target_scale = max(target_scale, 0.1)
config_target_scale(cfg) ==
    IF cfg.final2x_target_scale > ScaleUnit \div 10
    THEN cfg.final2x_target_scale ELSE ScaleUnit \div 10

\* Variant: the scale of the call is not looked at.
resolved_scale_configured(target_scale, configured) == configured

\* process: scale = target_scale or self.config.target_scale (None and 0
\* are both kept as 0).
resolved_scale(target_scale, configured) ==
    IF target_scale # 0 THEN target_scale ELSE configured

\* process: (pad_unit - n % pad_unit) % pad_unit
pad_of(n) == (pad_unit - (n % pad_unit)) % pad_unit

\* The heights and widths of the input image, the target_scale of the
\* call (0: None), final2x_target_scale, and how many output pixels the
\* model yields per input pixel.
ImageDims == {1, 2, 5, 16, 17, 30}
TargetScales == {0, 2, 5, 30, 40, 80}
ConfiguredScales == {0, 5, 40}
NativeFactors == {1, 2, 4}

\* process has been called with an image of h by w pixels.
StartScale(h, w, target_scale, configured, native) ==
    [pc |-> "start", h |-> h, w |-> w, image |-> "as passed", target_scale |-> target_scale,
     configured |-> configured, native |-> native,
     pad_h |-> 0, pad_w |-> 0, rh |-> 0, rw |-> 0, exc |-> None]

ScaleInit ==
    /\ TaskInit
    /\ PipeIdle
    /\ CacheIdle
    /\ BackendIdle
    /\ settings \in {[DefaultSettings EXCEPT !.final2x_target_scale = c] : c \in ConfiguredScales}
    /\ backend = [mode |-> "any", limit |-> 0]
    /\ engine = [tile |-> 0, model |-> "loaded"]
    /\ elock = NoCaller
    /\ call = [t \in Callers |-> IdleCall]
    /\ sr \in {StartScale(h, w, t, config_target_scale(settings), k) :
                  h \in ImageDims, w \in ImageDims, t \in TargetScales, k \in NativeFactors}

\* process, the padding: a copy with reflected rows and columns added at
\* the bottom and the right, or the image itself when none are needed.
process_pad ==
    /\ sr.pc = "start"
    /\ sr' = [sr EXCEPT !.pc = "padded", !.pad_h = pad_of(sr.h), !.pad_w = pad_of(sr.w)]
    /\ UNCHANGED offScaleVars

\* process, the inference on the padded image: the model's output, native
\* times the padded size; or the inference raises.
process_infer ==
    /\ sr.pc = "padded"
    /\ \/ sr' = [sr EXCEPT !.pc = "inferred",
                           !.rh = sr.native * (sr.h + sr.pad_h),
                           !.rw = sr.native * (sr.w + sr.pad_w)]
       \/ sr' = [sr EXCEPT !.pc = "raised", !.exc = "inference"]
    /\ UNCHANGED offScaleVars

\* process, the crop: the share of the output that comes from the padding
\* is cut off at the bottom and the right.
process_crop ==
    /\ sr.pc = "inferred"
    /\ sr' = IF sr.pad_h # 0 \/ sr.pad_w # 0
             THEN [sr EXCEPT !.pc = "cropped",
                             !.rh = sr.rh - round_half_even(sr.pad_h * sr.rh, sr.h + sr.pad_h),
                             !.rw = sr.rw - round_half_even(sr.pad_w * sr.rw, sr.w + sr.pad_w)]
             ELSE [sr EXCEPT !.pc = "cropped"]
    /\ UNCHANGED offScaleVars

\* process, the resize to the requested scale and the return: cv2.resize
\* raises when a side of the target size is not positive.
process_resize ==
    /\ sr.pc = "cropped"
    /\ LET scale == resolved_scale(sr.target_scale, sr.configured)
           target_w == round_half_even(sr.w * scale, ScaleUnit)
           target_h == round_half_even(sr.h * scale, ScaleUnit)
       IN sr' = IF scale > 0 /\ <<sr.rw, sr.rh>> # <<target_w, target_h>>
                THEN IF target_w <= 0 \/ target_h <= 0
                     THEN [sr EXCEPT !.pc = "raised", !.exc = "cv2.error"]
                     ELSE [sr EXCEPT !.pc = "returned", !.rw = target_w, !.rh = target_h]
                ELSE [sr EXCEPT !.pc = "returned"]
    /\ UNCHANGED offScaleVars

ScaleNext ==
    \/ process_pad
    \/ process_infer
    \/ process_crop
    \/ process_resize

ScaleSpec == ScaleInit /\ [][ScaleNext]_vars

(* ---- services/model_wrappers.py, services/face_restoration.py: caches -- *)
\* A call of a function wrapped in functools.lru_cache(maxsize=1): a hit
\* leaves the cache as it is; on a miss the function runs and its result
\* replaces the entry, unless it raises, which leaves the cache as it is.
lru_cache_1(cache, key, returns) ==
    IF key \in cache THEN cache ELSE IF returns THEN {key} ELSE cache

\* The getter behind each handler of run_model_stage and the kind of
\* backend each getter constructs.
StageGetter ==
    [h \in {"gfpgan", "promptfix", "iopaint"} |->
        CASE h = "gfpgan" -> "_get_gfpgan"
          [] h = "promptfix" -> "_get_promptfix_pipeline"
          [] OTHER -> "_get_iopaint_pipeline"]
BackendKind ==
    [g \in Getters |->
        CASE g \in {"_get_gfpgan", "_get_gfpgan_restorer"} -> "gfpgan"
          [] g = "_get_promptfix_pipeline" -> "promptfix"
          [] g = "_get_iopaint_pipeline" -> "iopaint"
          [] OTHER -> "codeformer"]

\* The arguments the getters are called with: the handlers of a stage
\* pass the model path and device of the settings, restore_faces the
\* model path of its caller and the device it selected.
SettingsKey == [model_path |-> "configured", device |-> "cuda"]
FaceModelPaths == {None, "weights/custom.pth"}

\* A provider name is the sequence of its characters.
UpperCase == <<"A", "C", "D", "E", "F", "G", "M", "N", "O", "P", "R">>
LowerCase == <<"a", "c", "d", "e", "f", "g", "m", "n", "o", "p", "r">>
gfpgan == <<"g", "f", "p", "g", "a", "n">>
codeformer == <<"c", "o", "d", "e", "f", "o", "r", "m", "e", "r">>
Providers ==
    {gfpgan, codeformer, <<"G", "F", "P", "G", "A", "N">>,
     <<"C", "o", "d", "e", "F", "o", "r", "m", "e", "r">>, <<"d", "f", "d", "n", "e", "t">>}

\* str.lower()
lower(s) ==
    [k \in 1..Len(s) |->
        IF \E j \in 1..Len(UpperCase) : UpperCase[j] = s[k]
        THEN LowerCase[CHOOSE j \in 1..Len(UpperCase) : UpperCase[j] = s[k]]
        ELSE s[k]]

BackendInit ==
    /\ TaskInit
    /\ PipeIdle
    /\ EngineIdle
    /\ CacheIdle
    /\ ScaleIdle
    /\ BackendIdle

\* _run_gfpgan, _run_promptfix, _run_iopaint of model_wrappers.py: the
\* handler reads its model path from the settings.  core/config.py
\* defines no such field, so the read raises AttributeError ("unset") and
\* the getter is not called; with the field defined and set, the getter is
\* called with the settings' values and returns the backend or raises.
run_stage_backend(h, field, returns) ==
    /\ backends' =
          IF field = "unset"
          THEN [backends EXCEPT !.last = [kind |-> "attribute error", provider |-> <<>>]]
          ELSE [cached |-> [backends.cached EXCEPT ![StageGetter[h]] =
                               lru_cache_1(@, SettingsKey, returns)],
                last |-> [kind |-> h, provider |-> <<>>]]
    /\ UNCHANGED offBackendVars

\* restore_faces: _select_device raises without CUDA; then the cache of
\* the other provider is cleared when the provider argument is exactly
\* "gfpgan" or "codeformer"; then the backend is chosen by the lower-cased
\* argument, and any other name raises.
restore_faces(provider, model_path, cuda, returns) ==
    LET key == [model_path |-> model_path, device |-> "cuda"]
        cleared ==
            IF provider = gfpgan
            THEN [backends.cached EXCEPT !["_get_codeformer"] = {}]
            ELSE IF provider = codeformer
                 THEN [backends.cached EXCEPT !["_get_gfpgan_restorer"] = {}]
                 ELSE backends.cached
        provider_normalized == lower(provider)
    IN /\ backends' =
             IF ~cuda
             THEN [backends EXCEPT !.last = [kind |-> "no device", provider |-> provider]]
             ELSE IF provider_normalized = gfpgan
             THEN [cached |-> [cleared EXCEPT !["_get_gfpgan_restorer"] =
                                  lru_cache_1(@, key, returns)],
                   last |-> [kind |-> "gfpgan", provider |-> provider]]
             ELSE IF provider_normalized = codeformer
             THEN [cached |-> [cleared EXCEPT !["_get_codeformer"] =
                                  lru_cache_1(@, key, returns)],
                   last |-> [kind |-> "codeformer", provider |-> provider]]
             ELSE [cached |-> cleared, last |-> [kind |-> "unsupported", provider |-> provider]]
       /\ UNCHANGED offBackendVars

BackendNext ==
    \/ \E h \in DOMAIN StageGetter, field \in {"unset", "set"}, returns \in BOOLEAN :
          run_stage_backend(h, field, returns)
    \/ \E provider \in Providers, model_path \in FaceModelPaths, cuda \in BOOLEAN,
          returns \in BOOLEAN : restore_faces(provider, model_path, cuda, returns)

BackendSpec == BackendInit /\ [][BackendNext]_vars

(* ------------------------------ properties ---------------------------- *)
\* The positions of a worker that holds a dequeued task id.
TaskPcs == {"get", "mark_read", "mark_save", "enhance", "done_read", "done_save",
            "fail_read", "fail_save"}

\* The positions of the task ids in the queue (the sentinel left out).
TaskPositions == {k \in 1..Len(queue) : queue[k] # SHUTDOWN}

\* C1: the queue is first-in first-out.  The task ids in the queue stand
\* in the order of their appends, an append goes behind every id queued
\* (its number is the highest handed out so far), and the id the worker
\* has dequeued was appended before every id still queued; so the worker
\* starts the ids in the order of their appends, a reprocessed id last.
C1_fifo_order ==
    /\ \A k, l \in TaskPositions : k < l => queue[k].seq < queue[l].seq
    /\ \A k \in TaskPositions : queue[k].seq < nextSeq
    /\ \A w \in Workers : \A k \in TaskPositions :
          wjob[w] # NoJob => wjob[w].seq < queue[k].seq

\* C1, its case: the worker processes the id of an earlier append while
\* the id appended by enqueue_task waits behind it.
C1_witness ==
    \E w \in Workers :
       /\ wpc[w] = "enhance"
       /\ wjob[w].src = "upload"
       /\ queue # <<>>
       /\ queue[Len(queue)].src = "enqueue"
       /\ wjob[w].seq < queue[Len(queue)].seq

\* C2: the worker leaves run only at the loop condition with the stop
\* event set or at BLPOP with the sentinel at the head; from every
\* position in which it holds a dequeued id it goes on inside
\* _process_task or back to the loop (or the whole process dies), whatever
\* exception is raised there.
C2_loop_survives ==
    [][\A w \in Workers :
          /\ (wpc[w] # "stopped" /\ wpc'[w] = "stopped") =>
                \/ wpc[w] = "loop" /\ stopEvent[w]
                \/ wpc[w] = "blpop" /\ queue # <<>> /\ Head(queue) = SHUTDOWN
          /\ (wpc[w] \in TaskPcs /\ wpc'[w] \notin TaskPcs) =>
                \/ wpc'[w] = "loop"
                \/ wpc'[w] = "none" /\ lpc' = "down"]_vars

\* C2, its case: after an exception was caught the worker has dequeued the
\* next id.
C2_witness ==
    \E w \in Workers : caught[w] /\ wpc[w] = "get" /\ wjob[w] # NoJob

\* C3: while the worker is in enhance_image for a task, the last write of
\* the task's record is the worker's processing write and the record reads
\* processing, unless a request handler wrote the record after it.
C3_processing_visible ==
    \A w \in Workers :
       wpc[w] = "enhance" =>
          \/ /\ lastWrite[wjob[w].id].by = "w_processing"
             /\ data[wjob[w].id].status = "processing"
          \/ lastWrite[wjob[w].id].by \in {"cancel", "patch", "enqueue", "none"}

\* C3, its case: a task that was pending is in enhance_image and reads
\* processing.
C3_witness ==
    \E w \in Workers :
       /\ wpc[w] = "enhance"
       /\ lastWrite[wjob[w].id] = [by |-> "w_processing", over |-> "pending"]
       /\ data[wjob[w].id].status = "processing"

\* C4: the record the success branch has written has status completed, the
\* metrics enhance_image returned, a reference to the processed output
\* (preview_url) and a completion timestamp.
C4_completed_record ==
    \A i \in Ids :
       lastWrite[i].by = "w_completed" =>
          /\ data[i].status = "completed"
          /\ data[i].metrics \in Metrics
          /\ data[i].processed_at # None
          /\ "preview_url" \in DOMAIN data[i]

\* The texts an exception caught in _process_task can carry.
ErrorTexts == ImageErrors \cup {KeyErrorText, StorageErrorText}

\* C5: the except branch keeps the exception's text from the raise to the
\* write; its write stores status failed with exactly that text; and as
\* long as that write is the last one of the record, the record reads
\* failed with an exception text.
C5_failed_message ==
    /\ [](\A i \in Ids :
            lastWrite[i].by = "w_failed" =>
               data[i].status = "failed" /\ data[i].message \in ErrorTexts)
    /\ [][\A w \in Workers :
             /\ (wpc[w] = "enhance" /\ wpc'[w] = "fail_read") =>
                   wres'[w] \in ImageErrors /\ wjob'[w] = wjob[w]
             /\ (wpc[w] = "fail_read" /\ wpc'[w] = "fail_save") =>
                   wres'[w] = wres[w] /\ wjob'[w] = wjob[w]
             /\ (wpc[w] = "fail_save" /\ wpc'[w] = "loop"
                   /\ lastWrite'[wjob[w].id].by = "w_failed") =>
                   /\ data'[wjob[w].id].status = "failed"
                   /\ data'[wjob[w].id].message = wres[w]]_vars

\* C5, its case: enhance_image raised and the record reads failed with the
\* text raised.
C5_witness ==
    \E i \in Ids :
       /\ lastWrite[i].by = "w_failed"
       /\ data[i].status = "failed"
       /\ data[i].message \in ImageErrors

\* C6: a task cancelled while its id was still queued and its status
\* pending is not written processing by the worker afterwards.
C6_cancelled_not_processed ==
    \A i \in cancelledQueued : lastWrite[i].by # "w_processing"

\* C7: cancel_task, from its read to its save, leaves the queue and every
\* worker's position and locals as they are; and the success branch's
\* write over a record that reads cancelled leaves it completed.
C7_cancel_while_processing ==
    [][/\ \A c \in Clients :
             (\/ cpc[c] = "idle" /\ cpc'[c] = "save" /\ cop'[c] = "cancel"
              \/ cpc[c] = "save" /\ cop[c] = "cancel" /\ cpc'[c] = "idle" /\ lpc' = "up") =>
                 /\ queue' = queue
                 /\ <<wpc, wjob, wsnap, wres, stopEvent>>' = <<wpc, wjob, wsnap, wres, stopEvent>>
       /\ \A w \in Workers :
             (/\ wpc[w] = "done_save"
              /\ wpc'[w] = "loop"
              /\ data[wjob[w].id].status = "cancelled") =>
                 /\ data'[wjob[w].id].status = "completed"
                 /\ queue' = queue]_vars

\* C7, its case: the worker's completed write has replaced a cancelled
\* status.
C7_witness ==
    \E i \in Ids :
       /\ lastWrite[i] = [by |-> "w_completed", over |-> "cancelled"]
       /\ data[i].status = "completed"

\* The place of a status in the lifecycle pending, processing, terminal.
Rank(st) == IF st = "pending" THEN 0 ELSE IF st = "processing" THEN 1 ELSE 2

\* A step moves the status of task i back to an earlier place.
MovesBack(i) ==
    /\ data[i] # NoTask
    /\ data'[i] # NoTask
    /\ Rank(data'[i].status) < Rank(data[i].status)

\* C8 as stated: no step moves the status of a task back from processing
\* or from a terminal status to an earlier status.
C8_monotonic == [][\A i \in Ids : ~MovesBack(i)]_vars

\* C8 as the code has it: the status of a task moves back only by the
\* write of enqueue_task, of the PATCH route or of the worker's processing
\* write; upload, apply_adjustments, cancel_task and the worker's
\* completed and failed writes never move it back.
C8_moves_back_only_by ==
    [][\A i \in Ids :
          MovesBack(i) => lastWrite'[i].by \in {"enqueue", "patch", "w_processing"}]_vars

\* C8, its case: enqueue_task has put a task with a terminal status back
\* to pending.
C8_witness ==
    \E i \in Ids :
       /\ lastWrite[i].by = "enqueue"
       /\ lastWrite[i].over \in {"completed", "failed", "cancelled"}
       /\ data[i].status = "pending"

\* C9: at most one worker is between its processing write and its terminal
\* write, and no two workers hold the same task id there.
C9_one_at_a_time ==
    /\ Cardinality({w \in Workers : InProcessing(w)}) <= 1
    /\ \A v, w \in Workers :
          (v # w /\ InProcessing(v) /\ InProcessing(w)) => wjob[v].id # wjob[w].id

\* C9, its case: a task is being processed while its id stands in the
\* queue once more.
C9_witness ==
    \E w \in Workers : InProcessing(w) /\ wjob[w].id \in QueuedIds

\* C10 as stated: a task left in processing by a process that died is not
\* in the queue and reads processing, until enqueue_task is called for it.
C10_stuck_until_enqueue ==
    \A j \in stuck : j.id \notin QueuedIds /\ data[j.id].status = "processing"

\* C10 as the code has it: the element popped is gone and is not delivered
\* again, so the id of such a task is in the queue, or with a worker, only
\* through another element, appended after the one popped; and the record
\* reads processing until an operation writes it (cancel_task, the PATCH
\* route, or the worker processing such another element).
C10_no_redelivery ==
    \A j \in stuck :
       /\ \A k \in 1..Len(queue) : queue[k].id = j.id => queue[k].seq > j.seq
       /\ \A w \in Workers : wjob[w].id = j.id => wjob[w].seq > j.seq
       /\ data[j.id].status # "processing" =>
             lastWrite[j.id].by \in {"cancel", "patch", "w_completed", "w_failed"}

\* C10, its case: the process died mid-processing, a new process is up, its
\* worker polls the empty queue and the record still reads processing.
C10_witness ==
    \E j \in stuck : \E w \in Workers :
       /\ lpc = "up"
       /\ wpc[w] = "blpop"
       /\ queue = <<>>
       /\ data[j.id].status = "processing"

\* Any step of worker w.
WorkerStep(w) ==
    \/ run_check_stop(w)
    \/ run_blpop(w)
    \/ process_task_get(w)
    \/ process_task_mark_read(w)
    \/ process_task_mark_save(w)
    \/ process_task_enhance(w)
    \/ process_task_done_read(w)
    \/ process_task_done_save(w)
    \/ process_task_fail_read(w)
    \/ process_task_fail_save(w)

\* An upper bound of the steps a worker at position pc has left before it
\* leaves run, once stop has returned.
StepsLeft(pc) ==
    CASE pc = "get" -> 9
      [] pc = "mark_read" -> 8
      [] pc = "mark_save" -> 7
      [] pc = "enhance" -> 6
      [] pc = "done_read" -> 5
      [] pc = "done_save" -> 4
      [] pc = "fail_read" -> 3
      [] pc = "fail_save" -> 2
      [] pc \in {"loop", "blpop"} -> 1
      [] OTHER -> 0

\* C11: once stop has returned, the worker of the process can always take
\* a step until it has left run, every step it takes brings it nearer to
\* leaving (so it leaves after the task in progress, if any) and none of
\* them starts a task; the sentinel is never the element handed to
\* _process_task and no record or queued task id equals it.
C11_stop_ends_worker ==
    /\ [](/\ \A w \in Workers : wjob[w] # SHUTDOWN /\ (wpc[w] \in TaskPcs => wjob[w].id \in Ids)
          /\ \A i \in Ids : data[i] # NoTask => i # SHUTDOWN.id
          /\ \A k \in TaskPositions : queue[k].id # SHUTDOWN.id /\ queue[k].id < nextId
          /\ (lpc = "stopped" /\ cur # 0 /\ Running(cur)) => ENABLED WorkerStep(cur))
    /\ [][\A w \in Workers :
             (lpc = "stopped" /\ lpc' = "stopped" /\ wpc'[w] # wpc[w]) =>
                /\ wpc'[w] # "get"
                /\ StepsLeft(wpc'[w]) < StepsLeft(wpc[w])]_vars

\* C11, its case: stop has returned and the worker has left run while a
\* task id is still queued.
C11_witness ==
    /\ lpc = "stopped"
    /\ cur # 0
    /\ wpc[cur] = "stopped"
    /\ TaskPositions # {}

\* C12: while the worker processes a task, the processing call has been
\* given the adjustments stored on that task's record.
C12_adjustments_passed ==
    \A w \in Workers :
       (wpc[w] = "enhance" /\ data[wjob[w].id] # NoTask) =>
          enhance_adjustments(w) = data[wjob[w].id].adjustments

\* C13: the step of apply_adjustments that saves leaves every existing
\* record and source file as it was and creates one record under an id
\* that had no record, pending, with adjustments and with a source file
\* whose content is that of an existing task's file; the queue is not
\* touched by it.  Its push then appends exactly that id at the tail and
\* changes no record and no file.
C13_adjust_creates_new ==
    [][\A c \in Clients :
          /\ (cpc[c] = "idle" /\ cpc'[c] = "push" /\ cop'[c] = "adjust") =>
                /\ data[cid'[c]] = NoTask
                /\ cid'[c] \notin index
                /\ files[cid'[c]] = NoFile
                /\ \A i \in Ids \ {cid'[c]} : data'[i] = data[i] /\ files'[i] = files[i]
                /\ data'[cid'[c]].status = "pending"
                /\ data'[cid'[c]].adjustments \in Adjustments
                /\ \E i \in Ids \ {cid'[c]} :
                      data[i] # NoTask /\ files[i] # NoFile /\ files'[cid'[c]] = files[i]
                /\ queue' = queue
          /\ (cpc[c] = "push" /\ cop[c] = "adjust" /\ cpc'[c] = "idle" /\ lpc' = "up") =>
                /\ Len(queue') = Len(queue) + 1
                /\ SubSeq(queue', 1, Len(queue)) = queue
                /\ queue'[Len(queue')].id = cid[c]
                /\ data' = data
                /\ files' = files]_vars

\* C13, its case: apply_adjustments has returned; the new task is pending
\* with adjustments and its own file, its id is the last in the queue,
\* behind the id of the task it was made from, which has no adjustments.
C13_witness ==
    \E i, n \in Ids :
       /\ i # n
       /\ data[i] # NoTask
       /\ data[i].adjustments = None
       /\ lastWrite[n].by = "adjust"
       /\ data[n].status = "pending"
       /\ data[n].adjustments \in Adjustments
       /\ files[n] = files[i]
       /\ Len(queue) = 2
       /\ queue[1].id = i
       /\ queue[2].id = n
       /\ \A c \in Clients : cpc[c] = "idle"

\* C14 as stated: the model id recorded for every stage is the per-stage
\* override when one is given, else the global override when the stage's
\* catalog model is of kind superres, else the stage's catalog model id.
C14_model_resolution_as_stated ==
    \A k \in 1..Len(ptrace) :
        LET stage == PipelineStages[k]
            given == padj.pipeline_stage_overrides[stage.id]
            global == padj.model_name
        IN  ptrace[k].model_id =
               IF given # None THEN given
               ELSE IF global # None /\ get_model_spec(stage.model_id).kind = "superres"
                    THEN global
                    ELSE stage.model_id

\* C14, amended: the model id recorded for every stage is the per-stage
\* override when one is given; else the global override when the stage's
\* catalog model is of kind superres and the global override names a
\* catalog model of kind superres too; else the stage's catalog model id.
\* A stage whose catalog model is not of kind superres and that has no
\* per-stage override keeps its catalog model.
C14_model_resolution ==
    \A k \in 1..Len(ptrace) :
        LET stage == PipelineStages[k]
            given == padj.pipeline_stage_overrides[stage.id]
            global == padj.model_name
        IN  /\ ptrace[k].model_id =
                  IF given # None THEN given
                  ELSE IF /\ global # None
                          /\ get_model_spec(stage.model_id).kind = "superres"
                          /\ global \in DOMAIN MODEL_CATALOG
                          /\ MODEL_CATALOG[global].kind = "superres"
                       THEN global
                       ELSE stage.model_id
            /\ (given = None /\ get_model_spec(stage.model_id).kind # "superres")
                  => ptrace[k].model_id = stage.model_id

\* A run of old_photo_restore with a global super-resolution override and
\* no per-stage override: the face stage kept its catalog model, the
\* super-resolution stage took the override.
C14_witness ==
    /\ pout = "returned"
    /\ ppipe = "old_photo_restore"
    /\ padj.model_name = "HAT_Real_GAN_4x"
    /\ \A sid \in StageIds : padj.pipeline_stage_overrides[sid] = None
    /\ ptrace[1].model_id = "GFPGAN_v1.4"
    /\ ptrace[2].model_id = "HAT_Real_GAN_4x"

\* C15: a step in which an optional stage raises a configuration error
\* appends one skipped entry for that stage carrying the error text, leaves
\* the working image as it was and leaves the run going, so that the
\* following stages are still run; and a run is never aborted with the
\* skipped entry of an optional stage as its last entry.
C15_optional_skipped ==
    /\ [](pout = "raised" =>
             ~(/\ PipelineStages[Len(ptrace)].optional
               /\ ptrace[Len(ptrace)].status = "skipped"))
    /\ [][(stage_not_configured /\ CurStage.optional) =>
             /\ Len(ptrace') = Len(ptrace) + 1
             /\ ptrace'[Len(ptrace')].stage_id = CurStage.id
             /\ ptrace'[Len(ptrace')].status = "skipped"
             /\ ptrace'[Len(ptrace')].message \in ConfigErrors(CurModel)
             /\ pimage' = pimage
             /\ pout' = "running"
             /\ perr' = None
             /\ pidx' = pidx + 1]_vars

\* structure_fill returned although its optional texture stage was not
\* configured: that stage is in the summary as skipped, the next stage has
\* an entry, and the image is the one the first stage produced.
C15_witness ==
    /\ pout = "returned"
    /\ ppipe = "structure_fill"
    /\ Len(psummary.stages) = 3
    /\ psummary.stages[2].status = "skipped"
    /\ psummary.stages[2].message = "model has no handler"
    /\ psummary.stages[3].status = "executed"
    /\ Len(pimage) = 2

\* C16: a step in which a stage that is not optional raises a configuration
\* error ends the run with that error raised; the entry of such a stage is
\* always the last of the trace, and once the run has raised no stage is
\* run: trace, working image and loop position stay as they are.
C16_required_aborts ==
    /\ [](\A k \in 1..Len(ptrace) :
             (ptrace[k].message \in ConfigErrors(ptrace[k].model_id)
                 /\ ~PipelineStages[k].optional) =>
                /\ k = Len(ptrace)
                /\ pout = "raised"
                /\ perr = ptrace[k].message)
    /\ [][/\ (stage_not_configured /\ ~CurStage.optional) =>
                /\ pout' = "raised"
                /\ perr' \in ConfigErrors(CurModel)
                /\ pimage' = pimage
          /\ pout = "raised" => UNCHANGED pipeVars]_vars

\* old_photo_restore aborted at its first, required stage with the
\* configuration error; the second stage has no entry and produced no image.
C16_witness ==
    /\ pout = "raised"
    /\ ppipe = "old_photo_restore"
    /\ perr = "Final2x is disabled"
    /\ Len(ptrace) = 1
    /\ pimage = <<>>
    /\ psummary = None

\* C17: the trace entry of a stage that raised (its message is the error
\* text) has outcome error when the stage is not optional or the error is
\* not a configuration error, and outcome skipped only when the stage is
\* optional and the error is a configuration error.
C17_trace_outcomes ==
    \A k \in 1..Len(ptrace) :
        LET entry == ptrace[k]
            config == entry.message \in ConfigErrors(entry.model_id)
        IN  /\ (entry.message # None /\ (~PipelineStages[k].optional \/ ~config))
                  => entry.status = "error"
            /\ entry.status = "skipped" => (PipelineStages[k].optional /\ config)

C19_trace_complete ==
    pout = "returned" =>
        /\ psummary.stages = ptrace
        /\ Len(psummary.stages) = Len(PIPELINE_CATALOG[ppipe].stages)
        /\ \A k \in 1..Len(psummary.stages) :
              /\ psummary.stages[k].stage_id = PIPELINE_CATALOG[ppipe].stages[k].id
              /\ psummary.stages[k].stage_name = PIPELINE_CATALOG[ppipe].stages[k].name
              /\ psummary.stages[k].duration_ms >= 0

\* old_photo_restore returned with both stages executed, the second one
\* having taken measurable time.
C19_witness ==
    /\ pout = "returned"
    /\ ppipe = "old_photo_restore"
    /\ Len(psummary.stages) = 2
    /\ psummary.stages[1].status = "executed"
    /\ psummary.stages[2].status = "executed"
    /\ psummary.stages[2].duration_ms > 0

\* C20: for a requested pipeline id that is absent, empty or not in the
\* catalog, the stages run are those of the default pipeline
\* superres_basic, and the summary returned carries the default pipeline's
\* id and name, never the requested id.
C20_default_pipeline ==
    (pout # "called" /\ padj.pipeline_id \notin DOMAIN PIPELINE_CATALOG) =>
        /\ ppipe = "superres_basic"
        /\ \A k \in 1..Len(ptrace) :
              ptrace[k].stage_id = PIPELINE_CATALOG["superres_basic"].stages[k].id
        /\ Len(ptrace) <= Len(PIPELINE_CATALOG["superres_basic"].stages)
        /\ pout = "returned" =>
              /\ psummary.pipeline_id = "superres_basic"
              /\ psummary.pipeline_name = PIPELINE_CATALOG["superres_basic"].name
              /\ psummary.pipeline_id # padj.pipeline_id

\* A run requested with an id that is not in the catalog returned a
\* summary of the default pipeline with its one stage executed.
C20_witness ==
    /\ pout = "returned"
    /\ padj.pipeline_id = "no_such_pipeline"
    /\ psummary.pipeline_id = "superres_basic"
    /\ Len(psummary.stages) = 1
    /\ psummary.stages[1].status = "executed"


\* C21: during one out-of-memory recovery the tile sizes the model is
\* reloaded with are strictly descending: each is smaller than the one of
\* the attempt before it, the first one smaller than the tile size in force
\* at the first failure when tiling was enabled, and the configured tile
\* size when tiling was disabled.
C21_tiles_descend ==
    \A t \in Callers :
        LET tried == call[t].tried
        IN  /\ \A k \in 2..Len(tried) : tried[k].tile < tried[k - 1].tile
            /\ tried # <<>> =>
                  IF call[t].orig.tile # 0
                  THEN tried[1].tile < call[t].orig.tile
                  ELSE settings.final2x_tile_size > 0 =>
                          tried[1].tile = settings.final2x_tile_size


\* The positions of a thread inside the with block of process.
InsideLock == {"infer", "recover", "unlock"}

C23_ladder_reaches_128 ==
    backend = [mode |-> "limit", limit |-> 128] =>
        /\ \A t \in Callers :
              call[t].pc = "unlock" =>
                 /\ call[t].exc = NoExc
                 /\ call[t].orig.kind = "oom" =>
                       /\ engine.tile \in 1..128
                       /\ call[t].orig.tile = 0 \/ engine.tile < call[t].orig.tile
        /\ (elock = NoCaller /\ engine.tile # initial_tile(settings)) => engine.tile \in 1..128
        /\ \A t \in Callers : call[t].exc.kind \notin {"oom", "runtime"}

\* A call that failed with 600 px tiles is about to return after the
\* retries from 512 down to 128.
C23_witness ==
    \E t \in Callers :
        /\ backend = [mode |-> "limit", limit |-> 128]
        /\ call[t].pc = "unlock"
        /\ call[t].orig = Exc("oom", 600)
        /\ call[t].exc = NoExc
        /\ Len(call[t].tried) = 10
        /\ engine.tile = 128

\* C28: at most one thread at a time is inside inference or recovery, and
\* it is the holder of the lock; the lock is held by no thread that is not
\* inside, and the step that leaves the with block, returning or raising,
\* releases it.
C28_lock_serialises ==
    /\ [](/\ \A t, u \in Callers :
               (call[t].pc \in InsideLock /\ call[u].pc \in InsideLock) => t = u
          /\ \A t \in Callers : call[t].pc \in InsideLock <=> elock = t)
    /\ [][\A t \in Callers :
             (call[t].pc = "unlock" /\ call'[t].pc # "unlock") =>
                /\ elock' = NoCaller
                /\ call'[t].exc = call[t].exc]_vars

\* A thread waits for the lock while another one is in the recovery, and a
\* thread is inside after a call of another thread that raised.
C28_witness ==
    \E t, u \in Callers :
        /\ t # u
        /\ \/ call[t].pc = "recover" /\ call[u].pc = "lock"
           \/ call[t].pc = "infer" /\ call[u].pc = "after" /\ call[u].exc.kind = "runtime"


C27_filtered_page ==
    \A st \in TaskStatus, offset \in 0..MaxTasks, limit \in 1..MaxTasks :
        LET matching == {i \in index : data[i].status = st}
            newest(k) == CHOOSE i \in matching :
                             Cardinality({j \in matching : j > i}) = k - 1
            remaining == IF Cardinality(matching) > offset
                         THEN Cardinality(matching) - offset ELSE 0
            n == IF remaining < limit THEN remaining ELSE limit
        IN list_tasks(st, offset, limit) = [k \in 1..n |-> newest(offset + k)]

\* C30: whatever the interleaving of overlapping update_task calls on a
\* task id (worker transitions, cancel, PATCH, reprocess), every save over
\* an existing record leaves exactly the complete record its caller
\* computed from the record that caller read: every field is the caller's
\* payload value where the payload sets one and the value the caller read
\* otherwise, never a value taken from another call's save in between.
C30_last_save_wins ==
    /\ [](\A i \in Ids : DOMAIN data[i] = TaskDetailFields)
    /\ [][\A i \in Ids :
            (data[i] # NoTask /\ data'[i] # NoTask /\ lastWrite'[i] # lastWrite[i]) =>
               \/ \E c \in Clients :
                     /\ cpc[c] = "save" /\ cid[c] = i
                     /\ data'[i] = crec[c]
               \/ \E w \in Workers :
                     /\ wjob[w].id = i
                     /\ wpc[w] \in {"mark_save", "done_save", "fail_save"}
                     /\ LET payload == CASE wpc[w] = "mark_save" -> ProcessingPayload
                                         [] wpc[w] = "done_save" -> CompletedPayload(w)
                                         [] wpc[w] = "fail_save" -> FailedPayload(w)
                        IN \A f \in TaskDetailFields :
                              data'[i][f] = IF payload[f] # None THEN payload[f]
                                            ELSE wsnap[w][f]]_vars

\* A cancel that read the task before the worker completed it and saved
\* after: the stored record is the cancel's, without the worker's metrics.
C30_witness ==
    \E i \in Ids :
        /\ lastWrite[i] = [by |-> "cancel", over |-> "completed"]
        /\ data[i].status = "cancelled"
        /\ data[i].metrics = None
        /\ data[i].processed_at = None

\* C24: whatever model name is supplied through the adjustments or by a
\* pipeline stage, the model name an engine is looked up or built with is
\* a member of the allow-list or the configured fallback model.
C24_allowed_models ==
    LET permitted == ALLOWED_MODEL_IDS \cup {replace_pth(settings.final2x_model_name)}
    IN /\ \A t \in Callers : gcall[t].pc # "idle" => gcall[t].key \in permitted
       /\ \A b \in built : b.key \in permitted
       /\ \A e \in lru.cache : e.key \in permitted

\* A caller supplied a name that is neither on the allow-list, with or
\* without ".pth", nor the fallback, and got an engine of the fallback model.
C24_witness ==
    \E t \in Callers :
        /\ gcall[t].pc = "got"
        /\ gcall[t].name # NoName
        /\ replace_pth(gcall[t].name) \notin
              ALLOWED_MODEL_IDS \cup {replace_pth(settings.final2x_model_name)}
        /\ gcall[t].key = replace_pth(settings.final2x_model_name)
        /\ [key |-> gcall[t].key, n |-> gcall[t].got] \in built

\* C29: however the calls of get_final2x_engine interleave, at most one
\* engine is constructed per cache key, and all callers with the same key
\* get the same engine.
C29_one_engine_per_key ==
    /\ \A b \in built : b.n = 1
    /\ \A t, u \in Callers :
          (gcall[t].pc = "got" /\ gcall[u].pc = "got" /\ gcall[t].key = gcall[u].key)
             => gcall[t].got = gcall[u].got

\* C25 as stated: for every height H and width W of the input and every
\* resolved scale s, a call of process() whose inference returned returns
\* an image of round(H*s) by round(W*s) pixels, and the input is untouched.
C25_exact_size_always ==
    LET s == IF sr.target_scale # 0 THEN sr.target_scale ELSE sr.configured
    IN (sr.pc \in {"returned", "raised"} /\ sr.exc # "inference") =>
          /\ sr.pc = "returned"
          /\ sr.rh = round_half_even(sr.h * s, ScaleUnit)
          /\ sr.rw = round_half_even(sr.w * s, ScaleUnit)
          /\ sr.image = "as passed"

\* C25: when round(H*s) and round(W*s) are both at least 1, a call of
\* process() whose inference returned returns an image of exactly
\* round(H*s) by round(W*s) pixels, whatever the padding and the native
\* output size; when one of them is 0 the call raises instead of
\* returning.  The input image is never modified.
C25_exact_size ==
    LET s == IF sr.target_scale # 0 THEN sr.target_scale ELSE sr.configured
        th == round_half_even(sr.h * s, ScaleUnit)
        tw == round_half_even(sr.w * s, ScaleUnit)
    IN /\ sr.pc # "idle" => sr.image = "as passed"
       /\ sr.pc = "returned" => (sr.rh = th /\ sr.rw = tw /\ th >= 1 /\ tw >= 1)
       /\ (sr.pc = "raised" /\ sr.exc # "inference") => (th = 0 \/ tw = 0)

\* A padded image (neither side a multiple of 16) was scaled by the
\* call's own factor, different from the configured one and from the
\* model's native factor, and returned.
C25_witness ==
    /\ sr.pc = "returned"
    /\ sr.pad_h # 0 /\ sr.pad_w # 0
    /\ sr.target_scale \notin {0, sr.configured, sr.native * ScaleUnit}
    /\ sr.rh # sr.native * sr.h

ExecutedChain(trace) ==
    LET executed(entry) == entry.status = "executed"
        ex == SelectSeq(trace, executed)
    IN [k \in 1..Len(ex) |-> ex[k].model_id]

\* C31: the working image is always the run's input image with the models
\* of the executed stages so far applied in order, so each stage is given
\* the output of the nearest preceding executed stage (the input image
\* when there is none); a stage that is skipped or fails leaves it as it
\* was, and the image returned is the output of the last executed stage.
C31_image_chain ==
    /\ [](/\ pimage = ExecutedChain(ptrace)
          /\ pout = "returned" => pimage = ExecutedChain(psummary.stages))
    /\ [][Len(ptrace') = Len(ptrace) + 1 =>
             LET entry == ptrace'[Len(ptrace')]
             IN pimage' = IF entry.status = "executed"
                          THEN Append(pimage, entry.model_id)
                          ELSE pimage]_vars

\* structure_fill returned with its optional second stage skipped between
\* two executed stages: the third stage was given the first one's output.
C31_witness ==
    /\ pout = "returned"
    /\ Len(ptrace) = 3
    /\ ptrace[2].status = "skipped"
    /\ pimage = <<"DAT_light_2x", "DAT_light_2x">>

\* C32: every entry of the trace agrees with the dispatch rule for its
\* model id: a model of catalog kind superres was sent to the
\* super-resolution engine and each of the three named ids to its own
\* handler (a skipped entry carries that handler's text); for any other
\* id, in the catalog or not, the stage was skipped with the error of
\* run_model_stage itself and no backend ran: it is never executed or in
\* error, and the working image is the one before it.
C32_dispatch ==
    /\ [](\A k \in 1..Len(ptrace) :
             LET m == ptrace[k].model_id
                 own == {"GFPGAN_v1.4", "PromptFix_diffusion", "IOPaint_lama"}
                 superres == m \in DOMAIN MODEL_CATALOG /\ MODEL_CATALOG[m].kind = "superres"
             IN /\ superres /\ ptrace[k].status = "skipped"
                      => ptrace[k].message = "Final2x is disabled"
                /\ m = "GFPGAN_v1.4" /\ ptrace[k].status = "skipped"
                      => ptrace[k].message = "gfpgan_model_path is not set"
                /\ m = "PromptFix_diffusion" /\ ptrace[k].status = "skipped"
                      => ptrace[k].message = "PROMPTFIX_MODEL_PATH is not set"
                /\ m = "IOPaint_lama" /\ ptrace[k].status = "skipped"
                      => ptrace[k].message = "IOPAINT_MODEL_PATH is not set"
                /\ (~superres /\ m \notin own)
                      => /\ ptrace[k].status = "skipped"
                         /\ ptrace[k].message = "model has no handler")
    /\ [][(Len(ptrace') = Len(ptrace) + 1
             /\ ptrace'[Len(ptrace')].message = "model has no handler")
               => pimage' = pimage]_vars

\* An override sent an id the catalog does not know to a stage, which was
\* skipped with the error of run_model_stage, after a stage whose override
\* reached the super-resolution engine.
C32_witness ==
    /\ Len(ptrace) = 2
    /\ ptrace[1].model_id = "DAT_light_2x" /\ ptrace[1].status = "executed"
    /\ ptrace[2].model_id = "no_such_model" /\ ptrace[2].status = "skipped"
    /\ ptrace[2].message = "model has no handler"

\* C33: whenever a stage that reads the mask was given a payload that
\* cannot be decoded into an image and failed on it, its entry is a
\* skipped one (a configuration error), so that an optional stage does
\* not end the run.
C33_undecodable_is_config ==
    \A k \in 1..Len(ptrace) :
        LET mask == padj.mask_data
            undecodable ==
                \/ mask = <<>>
                \/ mask[1] # "data:"
                \/ "," \notin {mask[j] : j \in 1..Len(mask)}
                \/ mask[Len(mask)] # PngBody
            decoding_failed ==
                ptrace[k].message \in
                    {"a mask is required", "mask must be a data URL",
                     "mask data URL is invalid", "cannot parse the mask image",
                     "binascii.Error: Incorrect padding", "cv2.error: !buf.empty()"}
        IN (/\ ptrace[k].model_id \in {"IOPaint_lama", "PromptFix_diffusion"}
            /\ undecodable
            /\ decoding_failed)
              => /\ ptrace[k].status = "skipped"
                 /\ PipelineStages[k].optional => pout # "raised"

\* C38: for every super-resolution stage recorded as executed, the model
\* id of the entry is the model the engine ran with, that is the name
\* get_final2x_engine made of the id _run_final2x_superres passed to it.
C38_trace_names_engine_model ==
    \A k \in 1..Len(ptrace) :
        (/\ ptrace[k].status = "executed"
         /\ get_model_spec(ptrace[k].model_id).kind = "superres")
           => effective_name(<<ptrace[k].model_id>>, settings) = <<ptrace[k].model_id>>

\* C36: once stop has returned and the worker has left run, the queue
\* holds no shutdown sentinel; and the worker of a process in which stop
\* has not been called has not left run (no sentinel of an earlier process
\* ends it).
C36_no_leftover_sentinel ==
    /\ (lpc = "stopped" /\ cur # 0 /\ wpc[cur] = "stopped")
          => \A k \in 1..Len(queue) : queue[k] # SHUTDOWN
    /\ lpc = "up" => \A w \in Workers : wpc[w] # "stopped"

\* C39: whenever no request thread is inside a service operation and no
\* worker is inside update_task, the ids of the index are exactly the ids
\* that have a stored record; in particular a task whose upload has
\* returned and whose record is stored is listed or queued.
C39_index_matches_records ==
    (/\ \A c \in Clients : cpc[c] = "idle"
     /\ \A w \in Workers : wpc[w] \notin {"mark_save", "done_save", "fail_save"})
       => /\ index = {i \in Ids : data[i] # NoTask}
          /\ \A i \in Ids :
                (data[i] # NoTask /\ lastWrite[i].by = "upload")
                   => (i \in index \/ i \in QueuedIds)

\* C34: each getter caches at most one backend, and after a call that
\* used a backend of one kind no backend of another kind is cached; for
\* restore_faces: after a call with a provider name that selects one
\* provider, in any spelling, the other provider's getter caches nothing.
C34_one_backend_cached ==
    /\ \A g \in Getters : Cardinality(backends.cached[g]) <= 1
    /\ \A g \in Getters :
          (/\ backends.last.kind \in {"gfpgan", "promptfix", "iopaint", "codeformer"}
           /\ BackendKind[g] # backends.last.kind)
             => backends.cached[g] = {}

\* The application while stop() is not called, no storage or queue
\* operation fails and clear_all is not called: start-up, the requests
\* that create, requeue and cancel tasks, the worker, and the death
\* of the process.  The worker thread is scheduled as long as its process
\* lives, and every call it makes returns or raises.
LiveNext ==
    \/ lifespan_start
    \/ process_dies
    \/ \E c \in Clients : create_from_upload(c)
    \/ \E c \in Clients, i \in Ids, adj \in Adjustments : apply_adjustments(c, i, adj)
    \/ \E c \in Clients, i \in Ids : cancel_task(c, i)
    \/ \E c \in Clients, i \in Ids : enqueue_task(c, i)
    \/ \E c \in Clients : client_save(c)
    \/ \E c \in Clients : client_push(c)
    \/ \E w \in Workers : WorkerStep(w)

LiveSpec == Init /\ [][LiveNext]_vars /\ \A w \in Workers : WF_vars(WorkerStep(w))

\* The queue element numbered s is in the queue; a worker holds it.
InQueue(s) == \E k \in 1..Len(queue) : queue[k].seq = s
Held(s) == \E w \in Workers : wjob[w].seq = s

====
